---- MODULE Spec2Model ----
(***************************************************************************)
(* The live job controller of neuro-flow (LiveRunner) as a state machine.  *)
(* The remote job service holds a sequence of job instances in creation    *)
(* order; the controller discovers instances by tag queries and decides    *)
(* between attach and fresh launch.  Every controller operation is one     *)
(* action: it reads the remote, appends the external calls it makes, in    *)
(* order, to `log`, and leaves its result in `outcome`; Return hands       *)
(* control back to the caller.  The project storage is only ever written   *)
(* (replace_live_job), so its writes appear in `log` as "store" calls.     *)
(* Operations that wait on the remote or on asyncio tasks (kill, kill_all, *)
(* ps) take several actions, with pc = "waiting" in between.  The later    *)
(* sections give the job name derivation and the use of the controller as  *)
(* an async context manager specifications of their own.                   *)
(***************************************************************************)
EXTENDS Integers, Sequences, FiniteSets, TLC

VARIABLES
  remote,        \* the remote service's job instances of the last seven days (the `since`
                 \* window of the second listing), oldest first; descr.id is the index
  dry_run,       \* LiveRunner._dry_run
  project_role,  \* flow.project.role (None when the project declares no role)
  role_created,  \* LiveRunner._is_projet_role_created
  pc,            \* "idle": no operation in progress; "done": an operation has just finished;
                 \* "waiting": an operation is suspended at an await; "new", "failed" and
                 \* "exited": before, and after, the `async with` block of the controller
  op,            \* the operation that has just finished and its arguments
  log,           \* the external calls the operation made, in order
  outcome,       \* how the operation ended
  loader,        \* LiveRunner._config_loader: "none", "open" or "closed"
  name,          \* the inputs and the result of the job name derivation of run
  tasks,         \* the asyncio tasks of the operation in progress, in creation order
                 \* (for kill: the one poll loop of kill_job)
  finished,      \* the positions of the tasks that have completed, in completion order
  printed,       \* what the operation in progress has written to the console
  config,        \* the value the parser is given for a field of the flow file,
                 \* and what the parser made of it
  batch          \* the batch flow the graph checks are given, and their results

vars == <<remote, dry_run, project_role, role_created, pc, op, log, outcome,
          loader, name, tasks, finished, printed, config, batch>>

\* the state that run, status and list_suffixes neither read nor write
side == <<loader, name, tasks, finished, printed, config, batch>>

-----------------------------------------------------------------------------
(* Bounds *)

\* at most this many job instances on the remote
MaxJobs == 2

-----------------------------------------------------------------------------
(* Data *)

None == "None"

\* neuro_sdk.JobStatus
JobStatuses == {"PENDING", "RUNNING", "SUSPENDED", "SUCCEEDED", "FAILED", "CANCELLED"}

\* statuses of the first listing
LiveStatuses == {"PENDING", "RUNNING"}

\* statuses of the second listing
EndedStatuses == {"SUSPENDED", "SUCCEEDED", "FAILED", "CANCELLED"}

\* the flow: declared job ids in declaration order
JobIds == <<"train", "sweep">>

DeclaredJobs == {JobIds[i] : i \in 1..Len(JobIds)}

\* a job id the flow does not declare
UndeclaredJobs == {"nope"}

\* JobMeta.multi of a declared job
IsMulti(job_id) == job_id = "sweep"

ProjectId == "proj"

\* suffixes of multi-job instances
Suffixes == {"s1", "s2"}

\* suffix arguments a caller passes: none, or a non-empty suffix
SuffixArgs == {None} \cup Suffixes

\* extra argument tuples a caller passes
ArgsInputs == {<<>>, <<"x">>}

\* JobMeta.tags: the identity tags of a logical job
MetaTags(job_id) == {<<"project", ProjectId>>, <<"job", job_id>>}

\* the tags the flow file gives a job
UserTags(job_id) == IF job_id = "train" THEN {<<"team", "ml">>} ELSE {}

\* the tags an instance carries on the remote
InstTags(inst) ==
  MetaTags(inst.job) \cup UserTags(inst.job)
    \cup (IF inst.suffix = None THEN {} ELSE {<<"multi", inst.suffix>>})

\* python truthiness of an Optional[str]
Truthy(s) == s # None /\ s # ""

Instances == [job : DeclaredJobs, suffix : SuffixArgs, status : JobStatuses]

\* an instance as a session of this flow creates it
WellFormed(inst) == IsMulti(inst.job) <=> (inst.suffix # None)

\* one external call of an operation
Ev(call, id, tags, statuses, args) ==
  [call |-> call, id |-> id, tags |-> tags, statuses |-> statuses, args |-> args]

\* no name derivation in progress
NoName == [project |-> <<>>, job_id |-> <<>>, multi |-> FALSE, suffix |-> <<>>,
           result |-> None]

\* no value given to the parser
NoConfig == [field |-> "none"]

\* no batch flow given to the graph checks
NoBatch == [state |-> "none"]

NoOp == [name |-> "none", job_id |-> None, suffix |-> None, args |-> <<>>,
         browse |-> FALSE, detach |-> FALSE, seen |-> 0, not_found |-> FALSE]

-----------------------------------------------------------------------------
(* The remote job service *)

RECURSIVE ListFrom(_, _, _, _)
\* ids of the instances carrying all of `tags` with a status in `statuses`, newest first
ListFrom(rem, i, tags, statuses) ==
  IF i = 0 THEN <<>>
  ELSE (IF tags \subseteq InstTags(rem[i]) /\ rem[i].status \in statuses
        THEN <<i>> ELSE <<>>) \o ListFrom(rem, i - 1, tags, statuses)

\* client.jobs.list(tags=, reverse=True, limit=, statuses=); limit 0 is no limit
JobsList(rem, tags, statuses, limit) ==
  LET all == ListFrom(rem, Len(rem), tags, statuses)
  IN IF limit > 0 /\ Len(all) > limit THEN SubSeq(all, 1, limit) ELSE all

RECURSIVE Yields(_, _)
\* one yield event per listed instance, carrying the description's status
Yields(rem, ids) ==
  IF ids = <<>> THEN <<>>
  ELSE <<Ev("yield", Head(ids), InstTags(rem[Head(ids)]), {rem[Head(ids)].status}, <<>>)>>
       \o Yields(rem, Tail(ids))

-----------------------------------------------------------------------------
(* LiveRunner._ensure_meta *)

\* _ensure_meta ignoring skip_check
EnsureMeta_NoSkip(job_id, suffix, skip_check) ==
  IF job_id \notin DeclaredJobs THEN "unknown_job"
  ELSE IF IsMulti(job_id)
       THEN (IF suffix = None THEN "usage_suffix_required" ELSE "ok")
       ELSE (IF suffix # None THEN "usage_suffix_not_allowed" ELSE "ok")

EnsureMeta(job_id, suffix, skip_check) ==
  IF job_id \notin DeclaredJobs THEN "unknown_job"
  ELSE IF IsMulti(job_id)
       THEN (IF suffix = None /\ ~skip_check THEN "usage_suffix_required" ELSE "ok")
       ELSE (IF suffix # None THEN "usage_suffix_not_allowed" ELSE "ok")

-----------------------------------------------------------------------------
(* LiveRunner._resolve_jobs: the calls and yields of a full consumption, and *)
(* whether it ends by raising ResourceNotFound                              *)

\* ResolveA with `found` left unset by the first loop
ResolveA_FoundBySecondOnly(rem, tags) ==
  LET l1 == JobsList(rem, tags, LiveStatuses, 0)
      l2 == JobsList(rem, tags, EndedStatuses, 0)
  IN [events |-> <<Ev("list", 0, tags, LiveStatuses, <<>>)>> \o Yields(rem, l1)
                 \o <<Ev("list", 0, tags, EndedStatuses, <<>>)>> \o Yields(rem, l2),
      raised |-> l2 = <<>>]

\* ResolveA with the limit=1 of the other branch
ResolveA_Limited(rem, tags) ==
  LET l1 == JobsList(rem, tags, LiveStatuses, 1)
      l2 == JobsList(rem, tags, EndedStatuses, 1)
  IN [events |-> <<Ev("list", 0, tags, LiveStatuses, <<>>)>> \o Yields(rem, l1)
                 \o <<Ev("list", 0, tags, EndedStatuses, <<>>)>> \o Yields(rem, l2),
      raised |-> l1 = <<>> /\ l2 = <<>>]

\* multi job without suffix: both listings are consumed in full
ResolveA(rem, tags) ==
  LET l1 == JobsList(rem, tags, LiveStatuses, 0)
      l2 == JobsList(rem, tags, EndedStatuses, 0)
  IN [events |-> <<Ev("list", 0, tags, LiveStatuses, <<>>)>> \o Yields(rem, l1)
                 \o <<Ev("list", 0, tags, EndedStatuses, <<>>)>> \o Yields(rem, l2),
      raised |-> l1 = <<>> /\ l2 = <<>>]

\* ResolveB without the `return` after the first listing's yield
ResolveB_NoReturn(rem, tags) ==
  LET l1 == JobsList(rem, tags, LiveStatuses, 1)
      l2 == JobsList(rem, tags, EndedStatuses, 1)
  IN [events |-> <<Ev("list", 0, tags, LiveStatuses, <<>>)>> \o Yields(rem, l1)
                 \o <<Ev("list", 0, tags, EndedStatuses, <<>>)>> \o Yields(rem, l2),
      raised |-> l1 = <<>> /\ l2 = <<>>]

\* non-multi job, or multi job with suffix: the first yield ends the generator
ResolveB(rem, tags) ==
  LET l1 == JobsList(rem, tags, LiveStatuses, 1)
      l2 == JobsList(rem, tags, EndedStatuses, 1)
  IN IF l1 # <<>>
     THEN [events |-> <<Ev("list", 0, tags, LiveStatuses, <<>>)>> \o Yields(rem, <<Head(l1)>>),
           raised |-> FALSE]
     ELSE IF l2 # <<>>
     THEN [events |-> <<Ev("list", 0, tags, LiveStatuses, <<>>),
                        Ev("list", 0, tags, EndedStatuses, <<>>)>>
                      \o Yields(rem, <<Head(l2)>>),
           raised |-> FALSE]
     ELSE [events |-> <<Ev("list", 0, tags, LiveStatuses, <<>>),
                        Ev("list", 0, tags, EndedStatuses, <<>>)>>,
           raised |-> TRUE]

\* _resolve_jobs consuming both listings in full whatever the job
ResolveJobs_AlwaysA(rem, multi, tags, suffix) ==
  ResolveA(rem, IF multi /\ Truthy(suffix)
                THEN tags \cup {<<"multi", suffix>>} ELSE tags)

ResolveJobs(rem, multi, tags, suffix) ==
  IF multi /\ ~Truthy(suffix)
  THEN ResolveA(rem, tags)
  ELSE ResolveB(rem, IF multi /\ Truthy(suffix)
                     THEN tags \cup {<<"multi", suffix>>} ELSE tags)

RECURSIVE ForEach(_, _)
\* `async for descr in _resolve_jobs(...): await _run_neuro_cli(cmd, descr.id)`
ForEach(events, cmd) ==
  IF events = <<>> THEN <<>>
  ELSE LET e == Head(events)
       IN (IF e.call = "yield"
           THEN <<e, Ev(cmd, e.id, {}, {}, <<>>)>>
           ELSE <<e>>) \o ForEach(Tail(events), cmd)

-----------------------------------------------------------------------------
(* LiveRunner._try_attach_to_running *)

\* the yield events of a log
YieldsOf(events) == SelectSeq(events, LAMBDA e : e.call = "yield")

\* the decision with job.detach ignored
AttachDecision_IgnoresDetach(is_multi, args, descr, browse, detach) ==
  IF is_multi /\ args # <<>> THEN [log |-> <<>>, res |-> "already_running"]
  ELSE IF descr.statuses = {"PENDING"} THEN [log |-> <<>>, res |-> "exit2"]
  ELSE IF descr.statuses = {"RUNNING"}
       THEN [log |-> (IF browse THEN <<Ev("browse", descr.id, {}, {}, <<>>)>> ELSE <<>>)
                     \o <<Ev("attach", descr.id, {}, {}, <<>>)>>,
             res |-> "attached"]
       ELSE [log |-> <<>>, res |-> "restart"]

\* the decision without the PENDING check
AttachDecision_PendingRestarts(is_multi, args, descr, browse, detach) ==
  IF is_multi /\ args # <<>> THEN [log |-> <<>>, res |-> "already_running"]
  ELSE IF descr.statuses = {"RUNNING"}
       THEN [log |-> (IF browse THEN <<Ev("browse", descr.id, {}, {}, <<>>)>> ELSE <<>>)
                     \o (IF ~detach THEN <<Ev("attach", descr.id, {}, {}, <<>>)>> ELSE <<>>),
             res |-> "attached"]
       ELSE [log |-> <<>>, res |-> "restart"]

\* the attach-or-not decision once discovery has produced `descr` (a yield event)
AttachDecision(is_multi, args, descr, browse, detach) ==
  IF is_multi /\ args # <<>> THEN [log |-> <<>>, res |-> "already_running"]
  ELSE IF descr.statuses = {"PENDING"} THEN [log |-> <<>>, res |-> "exit2"]
  ELSE IF descr.statuses = {"RUNNING"}
       THEN [log |-> (IF browse THEN <<Ev("browse", descr.id, {}, {}, <<>>)>> ELSE <<>>)
                     \o (IF ~detach THEN <<Ev("attach", descr.id, {}, {}, <<>>)>> ELSE <<>>),
             res |-> "attached"]
       ELSE [log |-> <<>>, res |-> "restart"]

\* _try_attach_to_running without the `not is_multi or suffix` guard
TryAttach_Unguarded(rem, job_id, suffix, args, browse, detach) ==
  LET r == ResolveJobs(rem, IsMulti(job_id), MetaTags(job_id), suffix)
      jobs == YieldsOf(r.events)
  IN IF r.raised THEN [log |-> r.events, res |-> "not_found", raised |-> TRUE]
     ELSE IF Len(jobs) > 1 THEN [log |-> r.events, res |-> "multiple", raised |-> FALSE]
     ELSE LET d == AttachDecision(IsMulti(job_id), args, jobs[1], browse, detach)
          IN [log |-> r.events \o d.log, res |-> d.res, raised |-> FALSE]

TryAttachToRunning(rem, job_id, suffix, args, browse, detach) ==
  LET is_multi == IsMulti(job_id)
  IN IF ~(~is_multi \/ Truthy(suffix))
     THEN [log |-> <<>>, res |-> "no_discovery", raised |-> FALSE]
     ELSE LET em == EnsureMeta(job_id, suffix, FALSE)
              r  == ResolveJobs(rem, is_multi, MetaTags(job_id), suffix)
              jobs == YieldsOf(r.events)
          IN IF em # "ok" THEN [log |-> <<>>, res |-> em, raised |-> FALSE]
             ELSE IF r.raised THEN [log |-> r.events, res |-> "not_found", raised |-> TRUE]
             ELSE IF Len(jobs) > 1 THEN [log |-> r.events, res |-> "multiple", raised |-> FALSE]
             ELSE LET d == AttachDecision(is_multi, args, jobs[1], browse, detach)
                  IN [log |-> r.events \o d.log, res |-> d.res, raised |-> FALSE]

-----------------------------------------------------------------------------
(* LiveRunner._create_project_role *)

\* what client.users.add can answer
RoleResults == {"ok", "authorization_error", "already_exists", "illegal_argument"}

\* _create_project_role without the early return on the latch
CreateProjectRole_NoLatch(latch, res) ==
  IF res = "illegal_argument"
  THEN [log |-> <<Ev("add_role", 0, {}, {}, <<>>)>>, latch |-> latch, raised |-> TRUE]
  ELSE [log |-> <<Ev("add_role", 0, {}, {}, <<>>)>>, latch |-> TRUE, raised |-> FALSE]

\* _create_project_role: the add-role call unless the latch is set; the latch is set
\* unless the call raises
CreateProjectRole(latch, res) ==
  IF latch THEN [log |-> <<>>, latch |-> TRUE, raised |-> FALSE]
  ELSE IF res = "illegal_argument"
       THEN [log |-> <<Ev("add_role", 0, {}, {}, <<>>)>>, latch |-> FALSE, raised |-> TRUE]
       ELSE [log |-> <<Ev("add_role", 0, {}, {}, <<>>)>>, latch |-> TRUE, raised |-> FALSE]

-----------------------------------------------------------------------------
(* LiveRunner.run *)

\* run without the args check for non-multi jobs
RunPre_NoArgsCheck(job_id, suffix, args) == EnsureMeta(job_id, suffix, TRUE)

\* the checks of run before discovery
RunPre(job_id, suffix, args) ==
  LET em == EnsureMeta(job_id, suffix, TRUE)
  IN IF em # "ok" THEN em
     ELSE IF ~IsMulti(job_id) /\ args # <<>> THEN "usage_args"
     ELSE "ok"

\* the suffix of the launched job: a given suffix is kept, a missing one is generated
LaunchSuffix(job_id, suffix, fresh) ==
  IF ~IsMulti(job_id) THEN None
  ELSE IF suffix = None THEN fresh ELSE suffix

\* job.tags of the resolved job
JobTags(job_id, sfx) ==
  MetaTags(job_id) \cup UserTags(job_id)
    \cup (IF IsMulti(job_id) THEN {<<"multi", sfx>>} ELSE {})

\* the run CLI call with the tags of job.tags, without the tag of the suffix
RunCli_MetaTags(job_id, sfx, args) ==
  Ev("run", 0, MetaTags(job_id) \cup UserTags(job_id), {},
     IF IsMulti(job_id) THEN args ELSE <<>>)

\* the run CLI call: one --tag per tag of job.tags, the extra args of a multi job
RunCli(job_id, sfx, args) ==
  Ev("run", 0, JobTags(job_id, sfx), {}, IF IsMulti(job_id) THEN args ELSE <<>>)

\* a storage write for the first job id only
StoreWrites_First(i, n) ==
  IF i > n THEN <<>> ELSE <<Ev("store", 0, MetaTags(JobIds[i]), {}, <<>>)>>

RECURSIVE StoreWrites(_, _)
\* storage.replace_live_job for the job ids i..n, in declaration order
StoreWrites(i, n) ==
  IF i > n THEN <<>>
  ELSE <<Ev("store", 0, MetaTags(JobIds[i]), {}, <<>>)>> \o StoreWrites(i + 1, n)

Finish(o, l, res) ==
  /\ pc' = "done"
  /\ op' = o
  /\ log' = l
  /\ outcome' = res

\* the launch path of run: role, dry-run print or storage writes and the run CLI
Launch(o, prelog, fresh, role_res, store_fail) ==
  LET sfx  == LaunchSuffix(o.job_id, o.suffix, fresh)
      role == IF project_role = None
              THEN [log |-> <<>>, latch |-> role_created, raised |-> FALSE]
              ELSE CreateProjectRole(role_created, role_res)
      n    == Len(JobIds)
      k    == IF store_fail = 0 THEN n ELSE store_fail - 1
      cli  == RunCli(o.job_id, sfx, o.args)
  IN /\ role_created' = role.latch
     /\ IF role.raised
        THEN /\ Finish(o, prelog \o role.log, "role_error")
             /\ UNCHANGED remote
        ELSE IF dry_run
        THEN /\ Finish(o, prelog \o role.log, "printed")
             /\ UNCHANGED remote
        ELSE IF store_fail # 0
        THEN /\ Finish(o, prelog \o role.log \o StoreWrites(1, k), "storage_error")
             /\ UNCHANGED remote
        ELSE /\ Finish(o, prelog \o role.log \o StoreWrites(1, n) \o <<cli>>, "launched")
             /\ remote' = IF Len(remote) < MaxJobs
                          THEN Append(remote, [job |-> o.job_id, suffix |-> sfx,
                                               status |-> "PENDING"])
                          ELSE remote

\* job.browse and job.detach of the resolved job: read when run attaches to a
\* RUNNING instance; on the launch path they only add flags to the argument vector
JobFlags(job_id, suffix, args) ==
  IF ~dry_run
     /\ TryAttachToRunning(remote, job_id, suffix, args, FALSE, FALSE).res = "attached"
  THEN BOOLEAN ELSE {FALSE}

Run ==
  /\ pc = "idle"
  /\ \E job_id \in DeclaredJobs \cup UndeclaredJobs, suffix \in SuffixArgs, args \in ArgsInputs :
       LET pre == RunPre(job_id, suffix, args)
           o0  == [name |-> "run", job_id |-> job_id, suffix |-> suffix, args |-> args,
                   browse |-> FALSE, detach |-> FALSE, seen |-> Len(remote),
                   not_found |-> FALSE]
       IN IF pre # "ok"
          THEN /\ Finish(o0, <<>>, pre)
               /\ UNCHANGED <<remote, role_created>>
          ELSE \E browse \in JobFlags(job_id, suffix, args),
                  detach \in JobFlags(job_id, suffix, args) :
                 LET att == IF dry_run
                            THEN [log |-> <<>>, res |-> "no_discovery", raised |-> FALSE]
                            ELSE TryAttachToRunning(remote, job_id, suffix, args, browse, detach)
                     o   == [o0 EXCEPT !.browse = browse, !.detach = detach,
                                       !.not_found = att.raised]
                 IN IF att.res \notin {"no_discovery", "not_found", "restart"}
                    THEN /\ Finish(o, att.log, att.res)
                         /\ UNCHANGED <<remote, role_created>>
                    ELSE \E fresh \in (IF IsMulti(job_id) /\ suffix = None
                                       THEN Suffixes ELSE {None}),
                            role_res \in (IF project_role # None /\ ~role_created
                                          THEN RoleResults ELSE {"ok"}),
                            store_fail \in (IF dry_run THEN {0} ELSE 0..Len(JobIds)) :
                           Launch(o, att.log, fresh, role_res, store_fail)
  /\ UNCHANGED <<dry_run, project_role>>
  /\ UNCHANGED side

-----------------------------------------------------------------------------
(* LiveRunner.status *)

Status ==
  /\ pc = "idle"
  /\ \E job_id \in DeclaredJobs \cup UndeclaredJobs, suffix \in SuffixArgs :
       LET em == EnsureMeta(job_id, suffix, FALSE)
           o  == [NoOp EXCEPT !.name = "status", !.job_id = job_id, !.suffix = suffix,
                              !.seen = Len(remote)]
           r  == ResolveJobs(remote, IsMulti(job_id), MetaTags(job_id), suffix)
       IN IF em # "ok" THEN Finish(o, <<>>, em)
          ELSE Finish([o EXCEPT !.not_found = r.raised], ForEach(r.events, "status"),
                      IF r.raised THEN "not_running" ELSE "ok")
  /\ UNCHANGED <<remote, dry_run, project_role, role_created>>
  /\ UNCHANGED side

-----------------------------------------------------------------------------
(* LiveRunner.list_suffixes *)

ListSuffixes ==
  /\ pc = "idle"
  /\ \E job_id \in DeclaredJobs \cup UndeclaredJobs :
       LET em == EnsureMeta(job_id, None, TRUE)
           o  == [NoOp EXCEPT !.name = "list_suffixes", !.job_id = job_id,
                              !.seen = Len(remote)]
           r  == ResolveJobs(remote, IsMulti(job_id), MetaTags(job_id), None)
       IN IF em # "ok" THEN Finish(o, <<>>, em)
          ELSE Finish([o EXCEPT !.not_found = r.raised], r.events, "ok")
  /\ UNCHANGED <<remote, dry_run, project_role, role_created>>
  /\ UNCHANGED side

-----------------------------------------------------------------------------
(* the process exit code of an outcome that ends in sys.exit *)

ExitCode(res) ==
  IF res \in {"unknown_job", "not_running"} THEN 1
  ELSE IF res = "exit2" THEN 2
  ELSE 0

\* the outcomes that are click.BadArgumentUsage
UsageErrors == {"usage_suffix_required", "usage_suffix_not_allowed", "usage_args"}

-----------------------------------------------------------------------------
(* control returns to the caller *)

Return ==
  /\ pc = "done"
  /\ pc' = "idle"
  /\ op' = NoOp
  /\ log' = <<>>
  /\ outcome' = "none"
  /\ tasks' = <<>>
  /\ finished' = <<>>
  /\ printed' = <<>>
  /\ UNCHANGED <<remote, dry_run, project_role, role_created, loader, name, config, batch>>

-----------------------------------------------------------------------------
(* The remote job service: other sessions submit instances, instances change status *)

RemoteSubmit ==
  /\ pc \in {"idle", "waiting"}
  /\ Len(remote) < MaxJobs
  /\ \E inst \in Instances :
       /\ WellFormed(inst)
       /\ inst.status = "PENDING"
       /\ remote' = Append(remote, inst)
  /\ UNCHANGED <<dry_run, project_role, role_created, pc, op, log, outcome>>
  /\ UNCHANGED side

\* the status changes of the job service
StatusStep(from, to) ==
  \/ from = "PENDING"   /\ to \in {"RUNNING", "FAILED", "CANCELLED"}
  \/ from = "RUNNING"   /\ to \in {"SUSPENDED", "SUCCEEDED", "FAILED", "CANCELLED"}
  \/ from = "SUSPENDED" /\ to \in {"RUNNING", "CANCELLED"}

RemoteAdvance ==
  /\ pc \in {"idle", "waiting"}
  /\ \E i \in 1..Len(remote), st \in JobStatuses :
       /\ StatusStep(remote[i].status, st)
       /\ remote' = [remote EXCEPT ![i].status = st]
  /\ UNCHANGED <<dry_run, project_role, role_created, pc, op, log, outcome>>
  /\ UNCHANGED side

-----------------------------------------------------------------------------
Init ==
  /\ remote = <<>>
  /\ dry_run \in BOOLEAN
  /\ project_role \in {None, "role"}
  /\ role_created = FALSE
  /\ pc = "idle"
  /\ op = NoOp
  /\ log = <<>>
  /\ outcome = "none"
  /\ loader = "open"
  /\ name = NoName
  /\ tasks = <<>>
  /\ finished = <<>>
  /\ printed = <<>>
  /\ config = NoConfig
  /\ batch = NoBatch

Next ==
  \/ Run
  \/ Status
  \/ ListSuffixes
  \/ Return
  \/ RemoteSubmit
  \/ RemoteAdvance

Spec == Init /\ [][Next]_vars

-----------------------------------------------------------------------------
(* Reading the record of the operation that has just finished *)

CallsOf(call) == SelectSeq(log, LAMBDA e : e.call = call)

Count(call) == Len(CallsOf(call))

\* position of the first call named `call` with status filter `statuses`, 0 when absent
PosOfList(statuses) ==
  LET hits == {i \in 1..Len(log) : log[i].call = "list" /\ log[i].statuses = statuses}
  IN IF hits = {} THEN 0 ELSE CHOOSE i \in hits : \A j \in hits : i <= j

\* the remote as the operation found it
Before == SubSeq(remote, 1, op.seen)

\* the tag filter discovery uses for the operation's job and suffix
FilterTags ==
  MetaTags(op.job_id)
    \cup (IF IsMulti(op.job_id) /\ op.suffix \notin {None, ""}
          THEN {<<"multi", op.suffix>>} ELSE {})

\* ids of the instances the operation found on the remote that carry the filter's
\* tags and have a status in `statuses`
Matching(statuses) ==
  {i \in 1..Len(Before) : FilterTags \subseteq InstTags(Before[i])
                          /\ Before[i].status \in statuses}

Newest(ids) == CHOOSE i \in ids : \A j \in ids : j <= i

\* the operation ran discovery for a non-multi job or a multi job with a suffix
DiscoveredB ==
  /\ pc = "done"
  /\ Count("list") > 0
  /\ ~IsMulti(op.job_id) \/ op.suffix \notin {None, ""}

\* the operation ran discovery for a multi job without suffix
DiscoveredA ==
  /\ pc = "done"
  /\ Count("list") > 0
  /\ IsMulti(op.job_id) /\ op.suffix \in {None, ""}

-----------------------------------------------------------------------------
(* C1 *)

\* C1: discovery for a non-multi job or a multi job with suffix yields at most one
\* instance; when an instance with a PENDING/RUNNING status matches, the newest such
\* instance is the one yielded, the only listing call is the PENDING/RUNNING one, and
\* status runs the status command once, on that instance.
C1_LiveInstanceWins ==
  DiscoveredB =>
    /\ Count("yield") <= 1
    /\ Matching({"PENDING", "RUNNING"}) # {} =>
         /\ Count("yield") = 1
         /\ CallsOf("yield")[1].id = Newest(Matching({"PENDING", "RUNNING"}))
         /\ Count("list") = 1
         /\ CallsOf("list")[1].statuses = {"PENDING", "RUNNING"}
         /\ op.name = "status" =>
              /\ Count("status") = 1
              /\ CallsOf("status")[1].id = Newest(Matching({"PENDING", "RUNNING"}))

\* a status call that found an older RUNNING and a newer SUCCEEDED instance of the job
C1_Witness ==
  /\ pc = "done"
  /\ op.name = "status"
  /\ op.job_id = "train"
  /\ Len(remote) = 2
  /\ remote[1] = [job |-> "train", suffix |-> None, status |-> "RUNNING"]
  /\ remote[2] = [job |-> "train", suffix |-> None, status |-> "SUCCEEDED"]
  /\ Count("list") = 1
  /\ Count("status") = 1
  /\ CallsOf("status")[1].id = 1

-----------------------------------------------------------------------------
(* C2 *)

\* a run of a non-multi job whose discovery yielded a RUNNING instance
RunFoundRunning ==
  /\ pc = "done"
  /\ op.name = "run"
  /\ ~IsMulti(op.job_id)
  /\ Count("yield") = 1
  /\ CallsOf("yield")[1].statuses = {"RUNNING"}

\* C2 as stated: a run of a non-multi job that discovers a RUNNING instance issues
\* attach on that instance, no fresh run command and no live-job storage write.
C2_AlwaysAttaches ==
  RunFoundRunning =>
    /\ Count("attach") = 1
    /\ CallsOf("attach")[1].id = CallsOf("yield")[1].id
    /\ Count("run") = 0
    /\ Count("store") = 0

\* C2 amended: a run of a non-multi job that discovers a RUNNING instance issues browse
\* on that instance iff job.browse, then attach on it iff not job.detach, and issues no
\* fresh run command, no role creation and no live-job storage write.
C2_AttachUnlessDetach ==
  RunFoundRunning =>
    /\ outcome = "attached"
    /\ Count("browse") = (IF op.browse THEN 1 ELSE 0)
    /\ Count("attach") = (IF op.detach THEN 0 ELSE 1)
    /\ \A i \in 1..Len(log) :
         log[i].call \in {"browse", "attach"} => log[i].id = CallsOf("yield")[1].id
    /\ \A i, j \in 1..Len(log) :
         log[i].call = "browse" /\ log[j].call = "attach" => i < j
    /\ Count("run") = 0
    /\ Count("store") = 0
    /\ Count("add_role") = 0
    /\ Len(remote) = op.seen

\* a run that browsed and then attached to the RUNNING instance it found
C2_Witness ==
  /\ RunFoundRunning
  /\ op.browse /\ ~op.detach
  /\ Count("browse") = 1
  /\ Count("attach") = 1

-----------------------------------------------------------------------------
(* C3 *)

\* C3 as stated: a run whose discovery yielded only a SUCCEEDED, FAILED or CANCELLED
\* instance issues no attach and no browse and, unless role creation or a storage
\* write raises, exactly one fresh run command.
C3_TerminatedRestarts ==
  ( /\ pc = "done"
    /\ op.name = "run"
    /\ Count("yield") = 1
    /\ CallsOf("yield")[1].statuses \subseteq {"SUCCEEDED", "FAILED", "CANCELLED"}
    /\ outcome \notin {"role_error", "storage_error"} )
  => /\ Count("attach") = 0
     /\ Count("browse") = 0
     /\ Count("run") = 1

-----------------------------------------------------------------------------
(* C4 *)

\* a run whose discovery yielded a PENDING instance
RunFoundPending ==
  /\ pc = "done"
  /\ op.name = "run"
  /\ Count("yield") = 1
  /\ CallsOf("yield")[1].statuses = {"PENDING"}

\* C4 as stated: a run that discovers a PENDING instance exits with code 2 and issues
\* no attach, browse, fresh run command or live-job storage write.
C4_PendingExits2 ==
  RunFoundPending =>
    /\ ExitCode(outcome) = 2
    /\ Count("attach") = 0 /\ Count("browse") = 0
    /\ Count("run") = 0 /\ Count("store") = 0

\* C4 amended: a run that discovers a PENDING instance exits with code 2, or, for a
\* multi job run with extra args, fails with the already-running error; either way it
\* issues no attach, browse, fresh run command, role creation or storage write.
C4_PendingNeverLaunches ==
  RunFoundPending =>
    /\ IF IsMulti(op.job_id) /\ op.args # <<>>
       THEN outcome = "already_running"
       ELSE outcome = "exit2" /\ ExitCode(outcome) = 2
    /\ Count("attach") = 0 /\ Count("browse") = 0
    /\ Count("run") = 0 /\ Count("store") = 0 /\ Count("add_role") = 0
    /\ Len(remote) = op.seen

\* a run without args that found a PENDING instance and exited with code 2
C4_Witness ==
  /\ RunFoundPending
  /\ op.args = <<>>
  /\ outcome = "exit2"

-----------------------------------------------------------------------------
(* C5 *)

\* C5: discovery ends with ResourceNotFound iff it yielded no instance, which is the
\* case iff no instance on the remote carries the filter's tags (in any of the
\* statuses the two listings ask for).
C5_NotFoundIffNothingYielded ==
  (pc = "done" /\ Count("list") > 0) =>
    /\ op.not_found <=> Count("yield") = 0
    /\ op.not_found <=>
         Matching({"PENDING", "RUNNING", "SUSPENDED", "SUCCEEDED", "FAILED", "CANCELLED"}) = {}

\* a multi-job discovery without suffix that yielded from the second listing only
C5_Witness ==
  /\ DiscoveredA
  /\ ~op.not_found
  /\ Count("yield") > 0
  /\ \A i \in 1..Len(log) :
       log[i].call = "yield" => log[i].statuses \subseteq {"SUCCEEDED", "FAILED", "CANCELLED"}

\* a discovery that found nothing and raised
C5_WitnessNotFound ==
  /\ pc = "done" /\ Count("list") = 2 /\ op.not_found /\ Len(remote) > 0

-----------------------------------------------------------------------------
(* C6 *)

\* C6: discovery for a multi job without suffix issues both listings, yields every
\* instance carrying the job's tags exactly once, and yields every PENDING/RUNNING
\* instance before the second listing is started and every other one after it.
C6_BranchAYieldsAll ==
  DiscoveredA =>
    /\ Count("list") = 2
    /\ PosOfList({"PENDING", "RUNNING"}) = 1
    /\ PosOfList({"SUSPENDED", "SUCCEEDED", "FAILED", "CANCELLED"}) > 1
    /\ {CallsOf("yield")[i].id : i \in 1..Count("yield")}
         = Matching({"PENDING", "RUNNING", "SUSPENDED", "SUCCEEDED", "FAILED", "CANCELLED"})
    /\ Count("yield")
         = Cardinality(Matching({"PENDING", "RUNNING", "SUSPENDED", "SUCCEEDED",
                                 "FAILED", "CANCELLED"}))
    /\ \A i \in 1..Len(log) :
         log[i].call = "yield" =>
           IF Before[log[i].id].status \in {"PENDING", "RUNNING"}
           THEN i < PosOfList({"SUSPENDED", "SUCCEEDED", "FAILED", "CANCELLED"})
           ELSE i > PosOfList({"SUSPENDED", "SUCCEEDED", "FAILED", "CANCELLED"})

\* a multi-job discovery without suffix over a terminated instance that is older than
\* a live one: the live one is yielded first
C6_Witness ==
  /\ DiscoveredA
  /\ Len(remote) = 2
  /\ remote[1].job = "sweep" /\ remote[1].status = "FAILED"
  /\ remote[2].job = "sweep" /\ remote[2].status = "RUNNING"
  /\ Count("yield") = 2
  /\ CallsOf("yield")[1].id = 2
  /\ CallsOf("yield")[2].id = 1

-----------------------------------------------------------------------------
(* C7 *)

\* the skip_check argument of the operation's first _ensure_meta call
SkipCheck == op.name \in {"run", "list_suffixes"}

\* _ensure_meta returned the meta
MetaReturned ==
  outcome \notin {"unknown_job", "usage_suffix_required", "usage_suffix_not_allowed"}

\* C7: _ensure_meta returns the meta exactly when the job is declared and either it is
\* multi and (a suffix is given or skip_check) or it is non-multi and no suffix is
\* given; an undeclared job exits with code 1; multi without suffix (no skip_check) and
\* non-multi with suffix are usage errors.
C7_EnsureMeta ==
  pc = "done" =>
    /\ MetaReturned <=>
         /\ op.job_id \in {"train", "sweep"}
         /\ \/ op.job_id = "sweep" /\ (op.suffix # None \/ SkipCheck)
            \/ op.job_id = "train" /\ op.suffix = None
    /\ op.job_id \notin {"train", "sweep"} =>
         outcome = "unknown_job" /\ ExitCode(outcome) = 1 /\ log = <<>>
    /\ (op.job_id = "sweep" /\ op.suffix = None /\ ~SkipCheck) =>
         outcome = "usage_suffix_required" /\ outcome \in UsageErrors
    /\ (op.job_id = "train" /\ op.suffix # None) =>
         outcome = "usage_suffix_not_allowed" /\ outcome \in UsageErrors

\* run of a multi job without suffix passes the check that status refuses
C7_Witness ==
  /\ pc = "done"
  /\ op.name = "run" /\ op.job_id = "sweep" /\ op.suffix = None
  /\ MetaReturned

\* status of a multi job without suffix is refused
C7_WitnessRefused ==
  /\ pc = "done"
  /\ op.name = "status" /\ op.job_id = "sweep" /\ op.suffix = None
  /\ outcome = "usage_suffix_required"

-----------------------------------------------------------------------------
(* C8 *)

\* C8: run of a non-multi job with extra args ends in a usage error having made no
\* external call at all (no listing, attach, role creation, storage write or command)
\* and having changed neither the remote nor the role latch.
C8_ArgsRejectedFirst ==
  [][ ( /\ pc = "idle" /\ pc' = "done"
        /\ op'.name = "run" /\ op'.job_id = "train" /\ op'.args # <<>> )
      => /\ outcome' \in UsageErrors
         /\ log' = <<>>
         /\ remote' = remote
         /\ role_created' = role_created ]_vars

\* a run of the non-multi job with args and no suffix, refused for its args
C8_Witness ==
  /\ pc = "done"
  /\ op.name = "run" /\ op.job_id = "train" /\ op.suffix = None /\ op.args # <<>>
  /\ outcome = "usage_args"
  /\ Len(remote) > 0

-----------------------------------------------------------------------------
(* C9 *)

\* C9 as stated: a run of a multi job with suffix and extra args fails with the
\* already-running error exactly when discovery yielded a PENDING or RUNNING instance.
C9_AlreadyRunningIffLive ==
  ( /\ pc = "done"
    /\ op.name = "run"
    /\ op.job_id = "sweep" /\ op.suffix # None /\ op.args # <<>> )
  => ( outcome = "already_running"
       <=> \E i \in 1..Len(log) :
             log[i].call = "yield" /\ log[i].statuses \subseteq {"PENDING", "RUNNING"} )

-----------------------------------------------------------------------------
(* C10 *)

\* a run of a multi job without suffix
RunMultiNoSuffix ==
  /\ pc = "done"
  /\ op.name = "run"
  /\ op.job_id = "sweep"
  /\ op.suffix = None

-----------------------------------------------------------------------------
(* Volumes, images and the project role *)

\* flow.volumes in declaration order, and a volume the flow does not declare
VolumeIds == <<"data", "models", "cache">>

UnknownVolumes == {"novol"}

\* volume.local is set
HasLocal(volume) == volume \in {"data", "models"}

\* flow.images, and an image the flow does not declare
ImageIds == {"img", "noctx", "nodockerfile"}

UnknownImages == {"noimg"}

\* find_volume: "ok", or the sys.exit it ends in
FindVolume(volume) ==
  IF volume \notin {VolumeIds[i] : i \in 1..Len(VolumeIds)} THEN "unknown_volume"
  ELSE IF ~HasLocal(volume) THEN "no_local"
  ELSE "ok"

\* find_image: "ok", or the sys.exit it ends in
FindImage(image) ==
  IF image \notin ImageIds THEN "unknown_image"
  ELSE IF image = "noctx" THEN "no_context"
  ELSE IF image = "nodockerfile" THEN "no_dockerfile"
  ELSE "ok"

\* _add_resource: nothing without a project role; otherwise the role, then the share
\* (a ValueError of the share is printed and changes nothing else)
AddResource(latch, role_res) ==
  IF project_role = None THEN [log |-> <<>>, latch |-> latch, raised |-> FALSE]
  ELSE LET role == CreateProjectRole(latch, role_res)
       IN IF role.raised THEN role
          ELSE [role EXCEPT !.log = role.log \o <<Ev("share", 0, {}, {}, <<>>)>>]

\* the answers add-role can give in a state: drawn only when the call is made
RoleAnswers == IF project_role # None /\ ~role_created THEN RoleResults ELSE {"ok"}

Upload ==
  /\ pc = "idle"
  /\ \E volume \in {VolumeIds[i] : i \in 1..Len(VolumeIds)} \cup UnknownVolumes,
        role_res \in RoleAnswers :
       LET o   == [NoOp EXCEPT !.name = "upload", !.args = <<volume>>, !.seen = Len(remote)]
           fv  == FindVolume(volume)
           cli == <<Ev("mkdir", 0, {}, {}, <<volume>>), Ev("cp", 0, {}, {}, <<volume>>)>>
           res == AddResource(role_created, role_res)
       IN IF fv # "ok"
          THEN Finish(o, <<>>, fv) /\ UNCHANGED role_created
          ELSE /\ Finish(o, cli \o res.log, IF res.raised THEN "role_error" ELSE "ok")
               /\ role_created' = res.latch
  /\ UNCHANGED <<remote, dry_run, project_role>>
  /\ UNCHANGED side

RECURSIVE MkVolumesFrom(_, _, _)
\* the loop of mkvolumes from the i-th volume on: mkdir and _add_resource for every
\* volume with a local part; a raising _add_resource ends the loop
MkVolumesFrom(i, latch, role_res) ==
  IF i > Len(VolumeIds) THEN [log |-> <<>>, latch |-> latch, raised |-> FALSE]
  ELSE IF ~HasLocal(VolumeIds[i]) THEN MkVolumesFrom(i + 1, latch, role_res)
  ELSE LET mk  == <<Ev("mkdir", 0, {}, {}, <<VolumeIds[i]>>)>>
           res == AddResource(latch, role_res)
       IN IF res.raised THEN [res EXCEPT !.log = mk \o res.log]
          ELSE LET rest == MkVolumesFrom(i + 1, res.latch, role_res)
               IN [rest EXCEPT !.log = mk \o res.log \o rest.log]

Mkvolumes ==
  /\ pc = "idle"
  /\ \E role_res \in RoleAnswers :
       LET o   == [NoOp EXCEPT !.name = "mkvolumes", !.seen = Len(remote)]
           res == MkVolumesFrom(1, role_created, role_res)
       IN /\ Finish(o, res.log, IF res.raised THEN "role_error" ELSE "ok")
          /\ role_created' = res.latch
  /\ UNCHANGED <<remote, dry_run, project_role>>
  /\ UNCHANGED side

Build ==
  /\ pc = "idle"
  /\ \E image \in ImageIds \cup UnknownImages, role_res \in RoleAnswers :
       LET o   == [NoOp EXCEPT !.name = "build", !.args = <<image>>, !.seen = Len(remote)]
           fi  == FindImage(image)
           cli == <<Ev("image_build", 0, {}, {}, <<image>>)>>
           res == AddResource(role_created, role_res)
       IN IF fi # "ok"
          THEN Finish(o, <<>>, fi) /\ UNCHANGED role_created
          ELSE /\ Finish(o, cli \o res.log, IF res.raised THEN "role_error" ELSE "ok")
               /\ role_created' = res.latch
  /\ UNCHANGED <<remote, dry_run, project_role>>
  /\ UNCHANGED side

\* the operations that launch jobs or create resources, and the remote
NextLaunch ==
  \/ Run
  \/ Upload
  \/ Mkvolumes
  \/ Build
  \/ Return
  \/ RemoteSubmit
  \/ RemoteAdvance

SpecLaunch == Init /\ [][NextLaunch]_vars

-----------------------------------------------------------------------------
(* C11 *)

\* the tags of the run CLI call of the operation that has just finished
RunTags == CallsOf("run")[1].tags

\* C11: the tags a fresh run of job j emits contain project:<flow id> and job:<j>, and
\* are exactly these two, the user tags of j and one multi:<suffix> tag, which is
\* there iff j is a multi job (with the given suffix, or else the generated one).
C11_RunTags ==
  (pc = "done" /\ op.name = "run" /\ Count("run") > 0) =>
    LET multis == {t \in RunTags : t[1] = "multi"}
    IN /\ Count("run") = 1
       /\ <<"project", ProjectId>> \in RunTags
       /\ <<"job", op.job_id>> \in RunTags
       /\ RunTags = {<<"project", ProjectId>>, <<"job", op.job_id>>}
                      \cup UserTags(op.job_id) \cup multis
       /\ (multis # {}) <=> IsMulti(op.job_id)
       /\ Cardinality(multis) <= 1
       /\ \A t \in multis : IF op.suffix # None THEN t[2] = op.suffix ELSE t[2] \in Suffixes

\* a multi job launched without a suffix carries the generated suffix as its multi tag
C11_Witness ==
  /\ pc = "done" /\ op.name = "run" /\ outcome = "launched"
  /\ op.job_id = "sweep" /\ op.suffix = None
  /\ <<"multi", "s1">> \in RunTags

\* a launched non-multi job with user tags carries no multi tag
C11_WitnessPlain ==
  /\ pc = "done" /\ op.name = "run" /\ outcome = "launched"
  /\ op.job_id = "train"
  /\ RunTags = {<<"project", "proj">>, <<"job", "train">>, <<"team", "ml">>}

-----------------------------------------------------------------------------
(* C18 *)

\* the number of add-role calls in a log
AddRoleCalls(l) == Len(SelectSeq(l, LAMBDA e : e.call = "add_role"))

\* C18: over any sequence of run, upload, mkvolumes and build, an operation's
\* role-creation attempt that succeeds or is swallowed sets the latch; the latch is set
\* only by such an attempt; a set latch stays set, and no later operation calls add-role.
C18_RoleLatch ==
  [][(pc = "idle" /\ pc' = "done") =>
       /\ AddRoleCalls(log') <= 1
       /\ role_created => (role_created' /\ AddRoleCalls(log') = 0)
       /\ (AddRoleCalls(log') = 1 /\ outcome' # "role_error") => role_created'
       /\ (~role_created /\ role_created') =>
            (AddRoleCalls(log') = 1 /\ outcome' # "role_error")]_vars

\* mkvolumes with the latch already set shares both volumes without an add-role call
C18_Witness ==
  /\ pc = "done" /\ op.name = "mkvolumes" /\ role_created
  /\ Count("share") = 2 /\ Count("add_role") = 0

\* the operation that set the latch: one add-role call, then a share per volume
C18_WitnessSet ==
  /\ pc = "done" /\ op.name = "mkvolumes" /\ role_created
  /\ Count("share") = 2 /\ Count("add_role") = 1

\* a raising add-role call leaves the latch unset
C18_WitnessRaised ==
  /\ pc = "done" /\ outcome = "role_error" /\ ~role_created /\ Count("add_role") = 1

-----------------------------------------------------------------------------
(* C20 *)

\* positions of the calls named `call` in the log, in order
PositionsOf(call) == {i \in 1..Len(log) : log[i].call = call}

\* C20: a run that invokes the run CLI has first written one live-job record per
\* declared job id, in declaration order; a launch does invoke the CLI; a failing
\* storage write leaves the CLI uninvoked.
C20_StoreBeforeRun ==
  (pc = "done" /\ op.name = "run") =>
    /\ Count("run") > 0 =>
         /\ Count("store") = Len(JobIds)
         /\ \A i \in 1..Len(JobIds) :
              CallsOf("store")[i].tags = {<<"project", ProjectId>>, <<"job", JobIds[i]>>}
         /\ \A i \in PositionsOf("store"), j \in PositionsOf("run") : i < j
         /\ ~dry_run
    /\ outcome = "launched" <=> Count("run") = 1
    /\ outcome = "storage_error" => (Count("run") = 0 /\ Count("store") < Len(JobIds))

\* a launch of one job has written the records of both declared jobs
C20_Witness ==
  /\ pc = "done" /\ op.name = "run" /\ op.job_id = "train" /\ outcome = "launched"
  /\ Count("store") = 2 /\ Count("run") = 1

\* the second write failed: one record written, no CLI call
C20_WitnessFailed ==
  /\ pc = "done" /\ op.name = "run" /\ outcome = "storage_error"
  /\ Count("store") = 1 /\ Count("run") = 0

-----------------------------------------------------------------------------
(* The job name run derives when job.name is unset.  A string is the sequence *)
(* of its characters.                                                         *)

\* the length of the name the remote service accepts
NameLimit == 40

\* the longest id drawn as an input
MaxIdLen == 41

\* the string of n characters c
Rep(c, n) == [i \in 1..n |-> c]

\* str.replace("_", "-")
Dashed(s) == [i \in 1..Len(s) |-> IF s[i] = "_" THEN "-" ELSE s[i]]

RECURSIVE StripDash(_)
\* str.strip("-")
StripDash(s) ==
  IF s = <<>> THEN s
  ELSE IF Head(s) = "-" THEN StripDash(Tail(s))
  ELSE IF s[Len(s)] = "-" THEN StripDash(SubSeq(s, 1, Len(s) - 1))
  ELSE s

\* "--" in s
HasDoubleDash(s) == \E i \in 1..(Len(s) - 1) : s[i] = "-" /\ s[i + 1] = "-"

RECURSIVE ReplaceDoubleDash(_)
\* str.replace("--", "-"): one pass over non-overlapping occurrences, left to right
ReplaceDoubleDash(s) ==
  IF Len(s) < 2 THEN s
  ELSE IF s[1] = "-" /\ s[2] = "-"
       THEN <<"-">> \o ReplaceDoubleDash(SubSeq(s, 3, Len(s)))
       ELSE <<s[1]>> \o ReplaceDoubleDash(Tail(s))

RECURSIVE Collapse(_)
\* while "--" in s: s = s.replace("--", "-")
Collapse(s) == IF HasDoubleDash(s) THEN Collapse(ReplaceDoubleDash(s)) ELSE s

\* the slice s[:n]; a negative n counts from the end
Prefix(s, n) ==
  LET stop == IF n >= 0 THEN (IF n < Len(s) THEN n ELSE Len(s))
              ELSE (IF Len(s) + n > 0 THEN Len(s) + n ELSE 0)
  IN SubSeq(s, 1, stop)

\* the name of the job
DeriveName(project, job_id, multi, suffix) ==
  LET first  == Collapse(StripDash(Dashed(project)))
      second == Collapse(StripDash(Dashed(
                  IF multi THEN job_id \o <<"-">> \o suffix ELSE job_id)))
      cut    == Prefix(first, NameLimit - Len(second) - 1)
  IN Collapse(cut \o <<"-">> \o second)

\* project ids: plain, with runs of "_" and "-", underscores only, long
ProjectInputs ==
  { <<"p", "r", "o", "j">>,
    <<"m", "y", "_", "_", "c", "-", "-", "p">>,
    <<"a", "_", "b">>,
    <<"_">>,
    Rep("p", MaxIdLen) }

\* job ids: short identifiers, and identifiers of 35 characters and more
JobIdInputs ==
  { <<"t">>, <<"d", "_", "p">>, <<"_">>, <<"_", "j", "_">> }
    \cup {Rep("a", n) : n \in 35..MaxIdLen}

\* suffixes of multi jobs: given by the caller, or ten generated hex digits
SuffixInputs == { <<"s", "1">>, <<"_">>, Rep("f", 10) }

DeriveJobName ==
  /\ name.result = None
  /\ name' = [name EXCEPT
                !.result = DeriveName(name.project, name.job_id, name.multi, name.suffix)]
  /\ UNCHANGED <<remote, dry_run, project_role, role_created, pc, op, log, outcome,
                 loader, tasks, finished, printed, config, batch>>

\* the name derivation on its own: every input, then the derived name
InitName ==
  /\ remote = <<>>
  /\ dry_run = FALSE
  /\ project_role = None
  /\ role_created = FALSE
  /\ pc = "idle"
  /\ op = NoOp
  /\ log = <<>>
  /\ outcome = "none"
  /\ loader = "open"
  /\ tasks = <<>>
  /\ finished = <<>>
  /\ printed = <<>>
  /\ config = NoConfig
  /\ batch = NoBatch
  /\ \E project \in ProjectInputs, job_id \in JobIdInputs, multi \in BOOLEAN,
        suffix \in SuffixInputs \cup {<<>>} :
       /\ multi <=> suffix # <<>>
       /\ name = [project |-> project, job_id |-> job_id, multi |-> multi,
                  suffix |-> suffix, result |-> None]

NextName == DeriveJobName

SpecName == InitName /\ [][NextName]_vars

\* the second part of the name, as DeriveName computes it
SecondPart ==
  Collapse(StripDash(Dashed(
    IF name.multi THEN name.job_id \o <<"-">> \o name.suffix ELSE name.job_id)))

\* the first part of the name before truncation
FirstPart == Collapse(StripDash(Dashed(name.project)))

-----------------------------------------------------------------------------
(* C12 *)

\* C12: the derived job name is at most 40 characters long.
C12_NameAtMost40 ==
  name.result # None => Len(name.result) <= 40

\* the bound does hold whenever the second part is shorter than 40 characters
NameAtMost40WhenSecondFits ==
  (name.result # None /\ Len(SecondPart) < 40) => Len(name.result) <= 40

\* a job id of 40 characters is derived into a longer name
LongJobIdDerived ==
  /\ name.result # None
  /\ name.job_id = Rep("a", 40) /\ ~name.multi
  /\ Len(name.result) = 41

-----------------------------------------------------------------------------
(* C13 *)

\* C13: the derived job name contains no "--" and neither starts nor ends with "-".
C13_NameWellFormed ==
  name.result # None =>
    /\ ~HasDoubleDash(name.result)
    /\ name.result # <<>>
    /\ Head(name.result) # "-"
    /\ name.result[Len(name.result)] # "-"

\* the derived name never contains "--"
NameHasNoDoubleDash ==
  name.result # None => ~HasDoubleDash(name.result)

\* with both parts non-empty after truncation the name has no outer "-"
NameWellFormedWhenPartsRemain ==
  (/\ name.result # None
   /\ SecondPart # <<>>
   /\ Prefix(FirstPart, 40 - Len(SecondPart) - 1) # <<>>) =>
    /\ Head(name.result) # "-"
    /\ name.result[Len(name.result)] # "-"

\* a project part truncated to the empty string leaves a leading "-"
TruncatedToEmptyDerived ==
  /\ name.result # None
  /\ name.project = <<"p", "r", "o", "j">> /\ name.job_id = Rep("a", 39) /\ ~name.multi
  /\ name.result = <<"-">> \o Rep("a", 39)

\* a project part truncated to a string ending in "-" is joined with a single "-"
TruncatedToDashDerived ==
  /\ name.result # None
  /\ name.project = <<"a", "_", "b">> /\ name.job_id = Rep("a", 37) /\ ~name.multi
  /\ name.result = <<"a", "-">> \o Rep("a", 37)

-----------------------------------------------------------------------------
(* Operations that wait: kill polls the status of the killed instance, kill_all *)
(* and ps run one asyncio task per instance or job.  Such an operation is a     *)
(* start action, one action per await of each task, and a join; between them pc *)
(* is "waiting" and the remote goes on changing.                                *)

\* utils.RUNNING_JOB_STATUSES
RunningJobStatuses == {"PENDING", "RUNNING"}

\* utils.TERMINATED_JOB_STATUSES
TerminatedJobStatuses == {"SUCCEEDED", "FAILED", "CANCELLED"}

\* flow.tags: the tags every job of the flow carries
FlowTags == {<<"project", ProjectId>>}

\* what client.jobs.status(id) can answer: the status of the instance, or not found
StatusAnswers(rem, id) == {rem[id].status, "not_found"}

\* the poll loop after one answer without waiting for a terminated status
PollOutcome_NoWait(answer) ==
  IF answer = "not_found" THEN "not_found" ELSE "terminated"

\* the poll loop sleeping on every status, a TERMINATED one included
PollOutcome_Forever(answer) ==
  IF answer = "not_found" THEN "not_found" ELSE "sleep"

\* the poll loop after one answer: ResourceNotFound ends it, a status of the
\* TERMINATED set ends it, any other status sleeps and polls again
PollOutcome(answer) ==
  IF answer = "not_found" THEN "not_found"
  ELSE IF answer \in TerminatedJobStatuses THEN "terminated"
  ELSE "sleep"

\* the first yield of a discovery, whatever its status
KillTarget_AnyStatus(events) ==
  LET hits == {i \in 1..Len(events) : events[i].call = "yield"}
  IN IF hits = {} THEN 0 ELSE CHOOSE i \in hits : \A j \in hits : i <= j

\* position of the first yield of a discovery whose status is in the RUNNING set,
\* 0 when there is none
KillTarget(events) ==
  LET hits == {i \in 1..Len(events) :
                 events[i].call = "yield" /\ events[i].statuses \subseteq RunningJobStatuses}
  IN IF hits = {} THEN 0 ELSE CHOOSE i \in hits : \A j \in hits : i <= j

\* a line of the console: the task it reports (0 outside tasks) and its words
Line(task, text) == [task |-> task, text |-> text]

\* kill up to the first poll: _ensure_meta, discovery, the kill request
Kill ==
  /\ pc = "idle"
  /\ \E job_id \in DeclaredJobs \cup UndeclaredJobs, suffix \in SuffixArgs :
       LET em == EnsureMeta(job_id, suffix, FALSE)
           o  == [NoOp EXCEPT !.name = "kill", !.job_id = job_id, !.suffix = suffix,
                              !.seen = Len(remote)]
           r  == ResolveJobs(remote, IsMulti(job_id), MetaTags(job_id), suffix)
           k  == KillTarget(r.events)
       IN IF em # "ok"
          THEN Finish(o, <<>>, em) /\ UNCHANGED <<tasks, printed>>
          ELSE IF k = 0
          THEN /\ Finish([o EXCEPT !.not_found = r.raised], r.events, "False")
               /\ printed' = <<Line(0, <<"is not running", job_id>>)>>
               /\ UNCHANGED tasks
          ELSE /\ pc' = "waiting"
               /\ op' = o
               /\ log' = SubSeq(r.events, 1, k) \o <<Ev("kill", r.events[k].id, {}, {}, <<>>)>>
               /\ outcome' = "none"
               /\ tasks' = <<[id |-> r.events[k].id, at |-> "poll", last |-> None, kills |-> 1]>>
               /\ UNCHANGED printed
  /\ UNCHANGED <<remote, dry_run, project_role, role_created, loader, name, config, batch, finished>>

\* one status poll of kill
KillPoll ==
  /\ pc = "waiting" /\ op.name = "kill"
  /\ \E answer \in StatusAnswers(remote, tasks[1].id) :
       LET po == PollOutcome(answer)
       IN IF po = "sleep"
          THEN UNCHANGED <<tasks, pc, outcome, printed>>
          ELSE /\ tasks' = <<[tasks[1] EXCEPT !.last = answer, !.at = "done"]>>
               /\ pc' = "done"
               /\ outcome' = IF po = "terminated" THEN "True" ELSE "False"
               /\ printed' = <<Line(0, <<IF po = "terminated" THEN "Killed job"
                                         ELSE "is not running", op.job_id>>)>>
  /\ UNCHANGED <<remote, dry_run, project_role, role_created, op, log, loader, name, config, batch,
                 finished>>

\* the operations of this section neither read the dry-run flag nor the project role
InitPlain == Init /\ ~dry_run /\ project_role = None

NextKill ==
  \/ Kill
  \/ KillPoll
  \/ Return
  \/ RemoteSubmit
  \/ RemoteAdvance

SpecKill == InitPlain /\ [][NextKill]_vars

-----------------------------------------------------------------------------
(* C14 *)

\* the yields of the log whose instance a kill request of the log names
KilledYields == {i \in 1..Len(log) : log[i].call = "yield"
                   /\ \E j \in 1..Len(log) : log[j].call = "kill" /\ log[j].id = log[i].id}

\* C14: kill sends at most one kill request, and only for an instance that discovery
\* yielded with a status of the RUNNING set; it answers True only when a status poll
\* after the kill request reported a status of the TERMINATED set; when discovery
\* yields nothing, or an instance outside the RUNNING set, it sends no kill request
\* and answers False.
C14_KillJob ==
  (pc \in {"waiting", "done"} /\ op.name = "kill") =>
    /\ Count("kill") <= 1
    /\ \A j \in 1..Len(log) : log[j].call = "kill" =>
         \E i \in 1..(j - 1) : /\ log[i].call = "yield"
                               /\ log[i].id = log[j].id
                               /\ log[i].statuses \subseteq RunningJobStatuses
    /\ outcome = "True" =>
         /\ Count("kill") = 1
         /\ tasks[1].id = CallsOf("kill")[1].id
         /\ tasks[1].last \in TerminatedJobStatuses
    /\ (pc = "done" /\ outcome \notin UsageErrors \cup {"unknown_job"}
          /\ \A i \in 1..Len(log) :
               log[i].call = "yield" => ~(log[i].statuses \subseteq RunningJobStatuses)) =>
         (Count("kill") = 0 /\ outcome = "False")

\* kill of a RUNNING instance answered True after a poll that reported CANCELLED
C14_Witness ==
  /\ pc = "done" /\ op.name = "kill" /\ outcome = "True"
  /\ Count("kill") = 1 /\ tasks[1].last = "CANCELLED"
  /\ CallsOf("yield")[1].statuses = {"RUNNING"}

\* kill found only a terminated instance: no kill request, answer False
C14_WitnessNotRunning ==
  /\ pc = "done" /\ op.name = "kill" /\ outcome = "False"
  /\ Count("yield") = 1 /\ Count("kill") = 0

\* kill is still polling an instance that has become SUSPENDED
C14_WitnessPolling ==
  /\ pc = "waiting" /\ op.name = "kill" /\ tasks[1].at = "poll"
  /\ remote[tasks[1].id].status = "SUSPENDED"

-----------------------------------------------------------------------------
(* asyncio tasks and asyncio.gather *)

\* gather waiting for the first task only
AllDone_First(ts) == \A k \in 1..Len(ts) : k = 1 => ts[k].at = "done"

\* gather returns when every task has finished
AllDone(ts) == \A k \in 1..Len(ts) : ts[k].at = "done"

\* the results in the order the tasks finished
Gathered_AsCompleted(ts, fin) == fin

\* the results newest task first
Gathered_Reversed(ts, fin) == [k \in 1..Len(ts) |-> Len(ts) + 1 - k]

\* asyncio.gather(*tasks): the results in the order of the tasks passed in,
\* whatever the order they finished in
Gathered(ts, fin) == [k \in 1..Len(ts) |-> k]

Reverse(seq) == [i \in 1..Len(seq) |-> seq[Len(seq) + 1 - i]]

-----------------------------------------------------------------------------
(* LiveRunner.kill_all *)

\* tag_dct.get(key) of the tags with a separator
TagValue(tags, key) ==
  IF \E t \in tags : t[1] = key THEN (CHOOSE t \in tags : t[1] = key)[2] ELSE None

\* the kill task of a listed instance, before its first await: `kills` counts its kill
\* requests, `last` is the answer that ended its polling
KillTask(rem, id) ==
  [id |-> id, at |-> "kill", last |-> None, kills |-> 0,
   job |-> TagValue(InstTags(rem[id]), "job"),
   suffix |-> TagValue(InstTags(rem[id]), "multi")]

\* what a kill task returns
Report(t) ==
  IF Truthy(t.suffix) THEN <<"Killed job", t.job, t.suffix>> ELSE <<"Killed job", t.job>>

\* one yield per listed instance; a kill task reads the id and the tags of the
\* description it is given, never its status
Listed(rem, ids) ==
  [k \in 1..Len(ids) |-> Ev("yield", ids[k], InstTags(rem[ids[k]]), {}, <<>>)]

\* the listing and one task per listed instance
KillAll ==
  /\ pc = "idle"
  /\ LET ids == Reverse(ListFrom(remote, Len(remote), FlowTags, RunningJobStatuses))
     IN /\ pc' = "waiting"
        /\ op' = [NoOp EXCEPT !.name = "kill_all", !.seen = Len(remote)]
        /\ log' = <<Ev("list", 0, FlowTags, RunningJobStatuses, <<>>)>> \o Listed(remote, ids)
        /\ outcome' = "none"
        /\ tasks' = [k \in 1..Len(ids) |-> KillTask(remote, ids[k])]
  /\ UNCHANGED <<remote, dry_run, project_role, role_created, loader, name, config, batch, finished, printed>>

\* a task sends its kill request
KillTaskKill ==
  /\ pc = "waiting" /\ op.name = "kill_all"
  /\ \E k \in 1..Len(tasks) :
       /\ tasks[k].at = "kill"
       /\ tasks' = [tasks EXCEPT ![k].at = "poll", ![k].kills = @ + 1]
  /\ UNCHANGED <<remote, dry_run, project_role, role_created, pc, op, log, outcome, loader,
                 name, config, batch, finished, printed>>

\* one status poll of a task
KillTaskPoll ==
  /\ pc = "waiting" /\ op.name = "kill_all"
  /\ \E k \in 1..Len(tasks) :
       /\ tasks[k].at = "poll"
       /\ \E answer \in StatusAnswers(remote, tasks[k].id) :
            IF PollOutcome(answer) = "sleep"
            THEN UNCHANGED <<tasks, finished>>
            ELSE /\ tasks' = [tasks EXCEPT ![k].last = answer, ![k].at = "done"]
                 /\ finished' = Append(finished, k)
  /\ UNCHANGED <<remote, dry_run, project_role, role_created, pc, op, log, outcome, loader,
                 name, config, batch, printed>>

\* gather returns; one line per result
KillAllJoin ==
  /\ pc = "waiting" /\ op.name = "kill_all"
  /\ AllDone(tasks)
  /\ LET order == Gathered(tasks, finished)
     IN printed' = [i \in 1..Len(order) |-> Line(order[i], Report(tasks[order[i]]))]
  /\ pc' = "done"
  /\ outcome' = "ok"
  /\ UNCHANGED <<remote, dry_run, project_role, role_created, op, log, loader, name, config, batch, tasks,
                 finished>>

NextKillAll ==
  \/ KillAll
  \/ KillTaskKill
  \/ KillTaskPoll
  \/ KillAllJoin
  \/ Return
  \/ RemoteSubmit
  \/ RemoteAdvance

SpecKillAll == InitPlain /\ [][NextKillAll]_vars

\* kill_all is in progress or has just finished
InKillAll == pc \in {"waiting", "done"} /\ op.name = "kill_all"

\* the tasks reported by the console lines, in the order of the lines
PrintedTasks == [i \in 1..Len(printed) |-> printed[i].task]

-----------------------------------------------------------------------------
(* C15 *)

\* C15: kill_all lists with the flow tags and the RUNNING status set, runs one task
\* per listed instance and sends exactly one kill request to each of them; it prints
\* nothing before every task has ended its polling on a TERMINATED status or on not
\* found, and then reports every instance once, as its job tag value, followed by its
\* multi tag value when it has one.
C15_KillAll ==
  InKillAll =>
    /\ log[1] = Ev("list", 0, {<<"project", ProjectId>>}, RunningJobStatuses, <<>>)
    /\ Count("list") = 1
    /\ Len(tasks) = Count("yield")
    /\ \A k \in 1..Len(tasks) :
         /\ tasks[k].id = CallsOf("yield")[k].id
         /\ tasks[k].kills = (IF tasks[k].at = "kill" THEN 0 ELSE 1)
    /\ \A k, l \in 1..Len(tasks) : tasks[k].id = tasks[l].id => k = l
    /\ Len(printed) > 0 =>
         \A k \in 1..Len(tasks) :
           /\ tasks[k].at = "done"
           /\ tasks[k].last \in TerminatedJobStatuses \cup {"not_found"}
    /\ pc = "done" =>
         /\ Len(printed) = Len(tasks)
         /\ {printed[i].task : i \in 1..Len(printed)} = 1..Len(tasks)
         /\ \A i \in 1..Len(printed) :
              LET tags  == CallsOf("yield")[printed[i].task].tags
                  job   == {t[2] : t \in {u \in tags : u[1] = "job"}}
                  multi == {t[2] : t \in {u \in tags : u[1] = "multi"}}
              IN /\ Cardinality(job) = 1
                 /\ \A j \in job :
                      IF multi = {} THEN printed[i].text = <<"Killed job", j>>
                      ELSE \E m \in multi : printed[i].text = <<"Killed job", j, m>>

\* two instances killed, one of them of a multi job; both reported
C15_Witness ==
  /\ InKillAll /\ pc = "done"
  /\ Len(tasks) = 2 /\ tasks[1].kills = 1 /\ tasks[2].kills = 1
  /\ \E i \in 1..2 : printed[i].text = <<"Killed job", "sweep", "s1">>
  /\ \E i \in 1..2 : printed[i].text = <<"Killed job", "train">>

\* one task has finished, the other still polls: nothing printed yet
C15_WitnessWaiting ==
  /\ InKillAll /\ pc = "waiting"
  /\ Len(tasks) = 2 /\ tasks[1].at = "done" /\ tasks[2].at = "poll"
  /\ remote[tasks[2].id].status = "RUNNING"
  /\ Len(printed) = 0

-----------------------------------------------------------------------------
(* C16 *)

\* C16 as stated: the lines of kill_all are in the order the kill tasks finished.
C16_CompletionOrder ==
  (InKillAll /\ pc = "done") => PrintedTasks = finished

\* C16: the lines of kill_all are in the order of the listing, the order the tasks
\* were created in, whatever the order the tasks finished in.
C16_ListingOrder ==
  (InKillAll /\ pc = "done") =>
    /\ Len(printed) = Count("yield")
    /\ \A i \in 1..Len(printed) :
         /\ printed[i].task = i
         /\ tasks[i].id = CallsOf("yield")[i].id

\* the second task finished first, yet the line of the first task comes first
C16_Witness ==
  /\ InKillAll /\ pc = "done"
  /\ finished = <<2, 1>>
  /\ PrintedTasks = <<1, 2>>

-----------------------------------------------------------------------------
(* LiveRunner._job_status and LiveRunner.ps *)

\* a JobInfo: id is <<job id>> or <<job id, suffix>>; raw_id 0 and when None stand for
\* a job that has no instance
JobInfo(id, status, raw_id, when) ==
  [id |-> id, status |-> status, raw_id |-> raw_id, when |-> when]

\* the timestamp of the history that goes with a status
When(status) ==
  IF status = "PENDING" THEN "created_at"
  ELSE IF status = "RUNNING" THEN "started_at"
  ELSE "finished_at"

\* the loop of _job_status without the check of the suffixes seen
JobInfos_NoDedupe(ys, found_suffixes, job_id) ==
  [k \in 1..Len(ys) |->
     LET status == CHOOSE st \in ys[k].statuses : TRUE
         multis == {t \in ys[k].tags : t[1] = "multi"}
     IN JobInfo(IF multis = {} THEN <<job_id>>
                ELSE <<job_id, (CHOOSE t \in multis : TRUE)[2]>>,
                status, ys[k].id, When(status))]

RECURSIVE JobInfos(_, _, _)
\* the loop of _job_status over the yielded descriptions: an instance with a multi tag
\* gives a row unless its suffix has been seen, any other instance gives a row
JobInfos(ys, found_suffixes, job_id) ==
  IF ys = <<>> THEN <<>>
  ELSE LET descr  == Head(ys)
           status == CHOOSE st \in descr.statuses : TRUE
           multis == {t \in descr.tags : t[1] = "multi"}
       IN IF multis = {}
          THEN <<JobInfo(<<job_id>>, status, descr.id, When(status))>>
               \o JobInfos(Tail(ys), found_suffixes, job_id)
          ELSE LET val == (CHOOSE t \in multis : TRUE)[2]
               IN IF val \in found_suffixes
                  THEN JobInfos(Tail(ys), found_suffixes, job_id)
                  ELSE <<JobInfo(<<job_id, val>>, status, descr.id, When(status))>>
                       \o JobInfos(Tail(ys), found_suffixes \cup {val}, job_id)

\* _job_status passing over ResourceNotFound without a row
JobStatus_NoUnknown(rem, job_id) ==
  JobInfos(YieldsOf(ResolveJobs(rem, IsMulti(job_id), MetaTags(job_id), None).events),
           {}, job_id)

\* _job_status: the rows it returns
JobStatus(rem, job_id) ==
  LET r    == ResolveJobs(rem, IsMulti(job_id), MetaTags(job_id), None)
      rows == JobInfos(YieldsOf(r.events), {}, job_id)
  IN IF r.raised THEN Append(rows, JobInfo(<<job_id>>, "UNKNOWN", 0, None)) ELSE rows

\* one status task per declared job, in declaration order
Ps ==
  /\ pc = "idle"
  /\ pc' = "waiting"
  /\ op' = [NoOp EXCEPT !.name = "ps", !.seen = Len(remote)]
  /\ log' = <<>>
  /\ outcome' = "none"
  /\ tasks' = [k \in 1..Len(JobIds) |-> [job |-> JobIds[k], at |-> "start", rows |-> <<>>]]
  /\ UNCHANGED <<remote, dry_run, project_role, role_created, loader, name, config, batch, finished, printed>>

\* a status task runs _job_status against the remote as it is now
PsTask ==
  /\ pc = "waiting" /\ op.name = "ps"
  /\ \E k \in 1..Len(tasks) :
       /\ tasks[k].at = "start"
       /\ tasks' = [tasks EXCEPT ![k].at = "done", ![k].rows = JobStatus(remote, tasks[k].job)]
       /\ finished' = Append(finished, k)
  /\ UNCHANGED <<remote, dry_run, project_role, role_created, pc, op, log, outcome, loader,
                 name, config, batch, printed>>

RECURSIVE TableRows(_, _)
\* the rows of the table: the bulks in the given order of tasks, each bulk in its order
TableRows(ts, order) ==
  IF order = <<>> THEN <<>>
  ELSE [i \in 1..Len(ts[Head(order)].rows) |-> Line(Head(order), ts[Head(order)].rows[i])]
       \o TableRows(ts, Tail(order))

\* gather returns; the table is filled and printed
PsJoin ==
  /\ pc = "waiting" /\ op.name = "ps"
  /\ AllDone(tasks)
  /\ printed' = TableRows(tasks, Gathered(tasks, finished))
  /\ pc' = "done"
  /\ outcome' = "ok"
  /\ UNCHANGED <<remote, dry_run, project_role, role_created, op, log, loader, name, config, batch, tasks,
                 finished>>

NextPs ==
  \/ Ps
  \/ PsTask
  \/ PsJoin
  \/ Return
  \/ RemoteSubmit
  \/ RemoteAdvance

SpecPs == InitPlain /\ [][NextPs]_vars

\* the position of a declared job id in the declaration order
DeclPos(job_id) == CHOOSE k \in 1..Len(JobIds) : JobIds[k] = job_id

-----------------------------------------------------------------------------
(* C17 *)

\* C17: ps runs one status task per declared job, and the rows of its table are in
\* the declaration order of the job ids: every row of an earlier job comes before
\* every row of a later job, and every job has a row, whatever the order in which the
\* tasks ran and finished.
C17_PsDeclarationOrder ==
  (pc \in {"waiting", "done"} /\ op.name = "ps") =>
    /\ Len(tasks) = Len(JobIds)
    /\ \A k \in 1..Len(JobIds) : tasks[k].job = JobIds[k]
    /\ Len(printed) > 0 => (pc = "done" /\ Len(finished) = Len(JobIds))
    /\ pc = "done" =>
         /\ \A i, j \in 1..Len(printed) :
              i < j => DeclPos(printed[i].text.id[1]) <= DeclPos(printed[j].text.id[1])
         /\ \A k \in 1..Len(JobIds) :
              \E i \in 1..Len(printed) : printed[i].text.id[1] = JobIds[k]

\* the task of the second job finished first; the rows of the first job still come
\* first, and the second job has two rows
C17_Witness ==
  /\ pc = "done" /\ op.name = "ps"
  /\ finished = <<2, 1>>
  /\ Len(printed) = 3
  /\ printed[1].text.id = <<"train">>
  /\ printed[2].text.id[1] = "sweep" /\ printed[3].text.id[1] = "sweep"

-----------------------------------------------------------------------------
(* The controller as an async context manager: `async with LiveRunner(...)`.   *)
(* pc is "new" before __aenter__, "idle" and "done" inside the body, "failed"  *)
(* when __aenter__ raised (the body and __aexit__ are skipped) and "exited"    *)
(* after __aexit__.                                                            *)

\* how __aenter__ can end: both steps succeed, RunningLiveFlow.create raises, or
\* storage.get_or_create_project raises
EnterResults == {"ok", "flow_error", "project_storage_error"}

\* init_flow: opens the config loader; closes it again when the flow creation raises
InitFlow(res) ==
  IF res = "flow_error" THEN [loader |-> "closed", raised |-> TRUE]
  ELSE [loader |-> "open", raised |-> FALSE]

\* close: closes the config loader if there is one
Close(ld) == IF ld = "none" THEN "none" ELSE "closed"

\* __aenter__: init_flow, then init_project_storage
AEnter ==
  /\ pc = "new"
  /\ \E res \in EnterResults :
       LET fl == InitFlow(res)
       IN /\ loader' = fl.loader
          /\ IF fl.raised \/ res = "project_storage_error"
             THEN pc' = "failed" /\ outcome' = res
             ELSE pc' = "idle" /\ UNCHANGED outcome
  /\ UNCHANGED <<remote, dry_run, project_role, role_created, op, log, name, config, batch, tasks,
                 finished, printed>>

\* the outcomes of status and list_suffixes that raise out of the body
BodyExceptions == UsageErrors \cup {"unknown_job", "not_running"}

\* the body goes on after an operation that returned
Proceed ==
  /\ outcome \notin BodyExceptions
  /\ Return

\* __aexit__: at the end of the body, or when an operation of the body raised
AExit ==
  /\ pc \in {"idle", "done"}
  /\ pc = "idle" \/ outcome \in BodyExceptions
  /\ loader' = Close(loader)
  /\ pc' = "exited"
  /\ UNCHANGED <<remote, dry_run, project_role, role_created, op, log, outcome, name, config, batch, tasks,
                 finished, printed>>

InitLife ==
  /\ remote = <<>>
  /\ dry_run = FALSE
  /\ project_role = None
  /\ role_created = FALSE
  /\ pc = "new"
  /\ op = NoOp
  /\ log = <<>>
  /\ outcome = "none"
  /\ loader = "none"
  /\ name = NoName
  /\ tasks = <<>>
  /\ finished = <<>>
  /\ printed = <<>>
  /\ config = NoConfig
  /\ batch = NoBatch

NextLife ==
  \/ AEnter
  \/ Status
  \/ ListSuffixes
  \/ Proceed
  \/ AExit
  \/ RemoteSubmit
  \/ RemoteAdvance

SpecLife == InitLife /\ [][NextLife]_vars

-----------------------------------------------------------------------------
(* C19 *)

\* C19: when the use of the controller as a context manager has ended, be it by a
\* normal exit, an exception in the body, a failing flow creation or a failing
\* init_project_storage, the config loader is not left open.
C19_LoaderClosed ==
  pc \in {"failed", "exited"} => loader # "open"

\* on every exit path but the failing init_project_storage the loader is closed
LoaderClosedUnlessStorageFails ==
  (pc \in {"failed", "exited"} /\ outcome # "project_storage_error") => loader = "closed"

\* init_project_storage raised inside __aenter__: the loader stays open
StorageFailureLeavesLoaderOpen ==
  pc = "failed" /\ outcome = "project_storage_error" /\ loader = "open"

\* an exception in the body went through __aexit__
BodyExceptionClosed ==
  pc = "exited" /\ outcome = "not_running" /\ loader = "closed"

-----------------------------------------------------------------------------
(* The parser of the flow file: life-span values.  A text is the sequence of *)
(* its characters; a Python int, which has no width, is the sequence of its  *)
(* decimal digits without leading zeros; a float holding a whole number of   *)
(* seconds is the int of that number.                                         *)

DigitChars == <<"0", "1", "2", "3", "4", "5", "6", "7", "8", "9">>

\* \d, for the ASCII digits
IsDigit(c) == \E k \in 1..10 : DigitChars[k] = c

DigitValue(c) == (CHOOSE k \in 1..10 : DigitChars[k] = c) - 1

RECURSIVE StripZeros(_)
\* the digits without leading zeros
StripZeros(ds) ==
  IF Len(ds) > 1 /\ Head(ds) = "0" THEN StripZeros(Tail(ds)) ELSE ds

RECURSIVE ToDigits(_)
\* the int of a number that fits a machine word
ToDigits(n) ==
  IF n < 10 THEN <<DigitChars[n + 1]>>
  ELSE ToDigits(n \div 10) \o <<DigitChars[(n % 10) + 1]>>

RECURSIVE MulAdd(_, _, _)
\* the digits of a * k + c
MulAdd(a, k, c) ==
  IF a = <<>> THEN ToDigits(c)
  ELSE LET v == DigitValue(a[Len(a)]) * k + c
       IN MulAdd(SubSeq(a, 1, Len(a) - 1), k, v \div 10) \o <<DigitChars[(v % 10) + 1]>>

\* a * k
Mul(a, k) == StripZeros(MulAdd(a, k, 0))

RECURSIVE AddCarry(_, _, _)
AddCarry(a, b, c) ==
  IF a = <<>> /\ b = <<>> THEN <<DigitChars[c + 1]>>
  ELSE LET x == IF a = <<>> THEN 0 ELSE DigitValue(a[Len(a)])
           y == IF b = <<>> THEN 0 ELSE DigitValue(b[Len(b)])
           v == x + y + c
       IN AddCarry(SubSeq(a, 1, Len(a) - 1), SubSeq(b, 1, Len(b) - 1), v \div 10)
            \o <<DigitChars[(v % 10) + 1]>>

\* a + b
Add(a, b) == StripZeros(AddCarry(a, b, 0))

RECURSIVE LexLess(_, _)
LexLess(a, b) ==
  IF a = <<>> THEN FALSE
  ELSE IF a[1] = b[1] THEN LexLess(Tail(a), Tail(b))
  ELSE DigitValue(a[1]) < DigitValue(b[1])

\* a < b
Less(a, b) ==
  IF Len(a) = Len(b) THEN LexLess(a, b) ELSE Len(a) < Len(b)

\* int(text) of a text of digits
IntOf(text) == StripZeros(text)

\* str(x) of a float holding a whole number
StrOf(x) == x \o <<".", "0">>

\* float(text): the text of a whole number, with or without a fraction of zero
FloatOf(text) ==
  IF Len(text) > 2 /\ SubSeq(text, Len(text) - 1, Len(text)) = <<".", "0">>
  THEN StripZeros(SubSeq(text, 1, Len(text) - 2))
  ELSE StripZeros(text)

\* the largest number of days of a datetime.timedelta
TimedeltaMaxDays == 999999999

\* datetime.timedelta(days, hours, minutes, seconds).total_seconds()
TotalSeconds(days, hours, minutes, seconds) ==
  LET total == Add(Add(Mul(days, 86400), Mul(hours, 3600)),
                   Add(Mul(minutes, 60), seconds))
      limit == Mul(ToDigits(TimedeltaMaxDays + 1), 86400)
  IN IF Less(total, limit)
     THEN [raised |-> "none", value |-> total]
     ELSE [raised |-> "OverflowError", value |-> <<>>]

\* the unit letters of the pattern, in its order
Units == <<"d", "h", "m", "s">>

RECURSIVE DigitRun(_)
\* the length of the longest prefix of digits
DigitRun(s) ==
  IF s = <<>> THEN 0
  ELSE IF IsDigit(Head(s)) THEN 1 + DigitRun(Tail(s))
  ELSE 0

\* the position of a unit letter in the pattern, 0 for any other character
UnitOf(c) == IF \E k \in 1..4 : Units[k] = c THEN CHOOSE k \in 1..4 : Units[k] = c ELSE 0

NoGroups == << <<>>, <<>>, <<>>, <<>> >>

RECURSIVE Match(_, _, _)
\* ^((?P<d>\d+)d)?((?P<h>\d+)h)?((?P<m>\d+)m)?((?P<s>\d+)s)?$ on s, the groups
\* before `from` already passed; a group that did not take part is empty
Match(s, from, groups) ==
  IF s = <<>> THEN [matched |-> TRUE, groups |-> groups]
  ELSE LET n == DigitRun(s)
       IN IF n = 0 \/ n = Len(s) THEN [matched |-> FALSE, groups |-> NoGroups]
          ELSE LET k == UnitOf(s[n + 1])
               IN IF k < from THEN [matched |-> FALSE, groups |-> NoGroups]
                  ELSE Match(SubSeq(s, n + 2, Len(s)), k + 1,
                             [groups EXCEPT ![k] = SubSeq(s, 1, n)])

\* int(match.group(...) or 0)
GroupInt(group) == IF group = <<>> THEN <<"0">> ELSE IntOf(group)

MakeLifespan(groups) ==
  TotalSeconds(GroupInt(groups[1]), GroupInt(groups[2]),
               GroupInt(groups[3]), GroupInt(groups[4]))

\* RegexLifeSpan: the pattern, then make_lifespan on its match
RegexLifeSpan(text) ==
  LET mt == Match(text, 1, NoGroups)
  IN IF mt.matched THEN MakeLifespan(mt.groups)
     ELSE [raised |-> "DataError", value |-> <<>>]

\* LIFE_SPAN on a text that is not a number literal: t.Float refuses it, and
\* RegexLifeSpan & str decides
LIFE_SPAN(text) ==
  LET r == RegexLifeSpan(text)
  IN IF r.raised = "none" THEN [raised |-> "none", value |-> StrOf(r.value)] ELSE r

\* FLOW_DEFAULTS and parse_flow_defaults on the life-span of the defaults
ParseFlowDefaults(text) ==
  LET r == LIFE_SPAN(text)
  IN IF r.raised = "none" THEN [raised |-> "none", value |-> FloatOf(r.value)] ELSE r

\* the digits a component of a literal is drawn from; <<>> is an absent component
ComponentInputs ==
  { <<>>, <<"0">>, <<"1">>, <<"0", "7">>, <<"2", "4">>, <<"8", "6", "4", "0", "0">>,
    ToDigits(TimedeltaMaxDays), ToDigits(TimedeltaMaxDays + 1) }

\* the literal with the components given
Literal(parts) ==
  LET Part(k) == IF parts[k] = <<>> THEN <<>> ELSE parts[k] \o <<Units[k]>>
  IN Part(1) \o Part(2) \o Part(3) \o Part(4)

\* texts that are neither number literals nor literals with ordered components
OtherTexts ==
  { <<"a", "b", "c">>, <<"d">>, <<"1", "s", "1", "d">>, <<"1", "d", "1", "d">>,
    <<"1", "x">>, <<"1", "d", " ">> }

\* the life-span values given to the parser
LifeSpanInputs ==
  { [field |-> "life-span", state |-> "given", ordered |-> TRUE, parts |-> parts,
     text |-> Literal(parts)] :
      parts \in ComponentInputs \X ComponentInputs \X ComponentInputs \X ComponentInputs }
  \cup
  { [field |-> "life-span", state |-> "given", ordered |-> FALSE, parts |-> NoGroups,
     text |-> text] : text \in OtherTexts }

\* the parser reads the life-span of the flow defaults
ParseLifeSpan ==
  /\ config.field = "life-span"
  /\ config.state = "given"
  /\ config' = [field |-> "life-span", state |-> "parsed", ordered |-> config.ordered,
                parts |-> config.parts, text |-> config.text,
                result |-> ParseFlowDefaults(config.text)]
  /\ UNCHANGED <<remote, dry_run, project_role, role_created, pc, op, log, outcome,
                 loader, name, tasks, finished, printed, batch>>

-----------------------------------------------------------------------------
(* The parser of the flow file: the keys of the jobs, volumes and images maps *)

\* the most keys a map of a flow drawn as an input has
MaxKeys == 1

Letters ==
  { "a", "b", "c", "d", "e", "f", "g", "h", "i", "j", "k", "l", "m", "n", "o", "p",
    "q", "r", "s", "t", "u", "v", "w", "x", "y", "z" }

\* str.isidentifier, for ASCII texts
IsIdentifier(text) ==
  /\ text # <<>>
  /\ text[1] \in Letters \cup {"_"}
  /\ \A k \in 2..Len(text) : text[k] \in Letters \cup {"_"} \/ IsDigit(text[k])

\* t.String on a text: a blank one is refused
String(text) == text # <<>>

\* t.Mapping(t.String, ...) on a map with valid values: every key passes t.String
Mapping(keys) == \A key \in keys : String(key)

\* INTERACTIVE_FLOW(data) and the ids _parse_interactive and parse_base_flow keep
ParseInteractive(data) ==
  IF Mapping(data.images) /\ Mapping(data.volumes) /\ Mapping(data.jobs)
  THEN [raised |-> "none", jobs |-> data.jobs, volumes |-> data.volumes,
        images |-> data.images]
  ELSE [raised |-> "DataError", jobs |-> {}, volumes |-> {}, images |-> {}]

\* keys: identifiers, texts that are no identifiers, the empty text
KeyInputs ==
  { <<"t", "r", "a", "i", "n">>, <<"_", "x", "1">>, <<"m", "y", "-", "j", "o", "b">>,
    <<"1", "a", "b", "c">>, <<"a", " ", "b">>, <<>> }

KeySets == {keys \in SUBSET KeyInputs : Cardinality(keys) <= MaxKeys}

\* the flow files given to the parser, their values valid
FlowInputs ==
  { [field |-> "flow", state |-> "given", jobs |-> jobs, volumes |-> volumes,
     images |-> images] : jobs \in KeySets, volumes \in KeySets, images \in KeySets }

\* the parser reads a flow file of kind job
ParseFlow ==
  /\ config.field = "flow"
  /\ config.state = "given"
  /\ config' = [field |-> "flow", state |-> "parsed", jobs |-> config.jobs,
                volumes |-> config.volumes, images |-> config.images,
                result |-> ParseInteractive(config)]
  /\ UNCHANGED <<remote, dry_run, project_role, role_created, pc, op, log, outcome,
                 loader, name, tasks, finished, printed, batch>>

\* the parser on its own: every value given, then what the parser makes of it
InitParse ==
  /\ remote = <<>>
  /\ dry_run = FALSE
  /\ project_role = None
  /\ role_created = FALSE
  /\ pc = "idle"
  /\ op = NoOp
  /\ log = <<>>
  /\ outcome = "none"
  /\ loader = "open"
  /\ name = NoName
  /\ tasks = <<>>
  /\ finished = <<>>
  /\ printed = <<>>
  /\ batch = NoBatch
  /\ config \in LifeSpanInputs \cup FlowInputs

NextParse ==
  \/ ParseLifeSpan
  \/ ParseFlow

SpecParse == InitParse /\ [][NextParse]_vars

\* a life-span has been parsed
LifeSpanParsed == config.field = "life-span" /\ config.state = "parsed"

\* 86400*d + 3600*h + 60*m + s of the components a literal was written with
SumOfParts ==
  Add(Add(Mul(GroupInt(config.parts[1]), 86400), Mul(GroupInt(config.parts[2]), 3600)),
      Add(Mul(GroupInt(config.parts[3]), 60), GroupInt(config.parts[4])))

-----------------------------------------------------------------------------
(* C21 *)

\* C21: parsing the empty string as a life-span fails with a schema error; no
\* value is produced.
C21_EmptyRejected ==
  (LifeSpanParsed /\ config.text = <<>>) => config.result.raised = "DataError"

\* the empty string is parsed into a life-span of zero seconds
EmptyParsedAsZero ==
  /\ LifeSpanParsed
  /\ config.text = <<>>
  /\ config.result = [raised |-> "none", value |-> <<"0">>]

\* a text the pattern does not match is refused with a schema error
UnmatchedRejected ==
  (LifeSpanParsed /\ ~config.ordered) => config.result.raised = "DataError"

-----------------------------------------------------------------------------
(* C22 *)

\* C22: every literal with components in the order d, h, m, s, each optional and
\* a non-negative integer of any size, is parsed into 86400*d + 3600*h + 60*m + s.
C22_ParsedValue ==
  (LifeSpanParsed /\ config.ordered) =>
    /\ config.result.raised = "none"
    /\ config.result.value = SumOfParts

\* below the largest timedelta the parsed value is the sum
ParsedValueBelowLimit ==
  (LifeSpanParsed /\ config.ordered) =>
    IF Less(SumOfParts, Mul(ToDigits(TimedeltaMaxDays + 1), 86400))
    THEN config.result = [raised |-> "none", value |-> SumOfParts]
    ELSE config.result.raised = "OverflowError"

\* "1d86400s" is parsed into 172800 seconds
DayAndDayOfSecondsParsed ==
  /\ LifeSpanParsed
  /\ config.text = <<"1", "d", "8", "6", "4", "0", "0", "s">>
  /\ config.result = [raised |-> "none", value |-> <<"1", "7", "2", "8", "0", "0">>]

\* "1000000000d" makes the parser raise OverflowError
BillionDaysOverflow ==
  /\ LifeSpanParsed
  /\ config.text = <<"1", "0", "0", "0", "0", "0", "0", "0", "0", "0", "d">>
  /\ config.result.raised = "OverflowError"

\* "999999999d24h" is past the largest timedelta as well
CarriedDayOverflow ==
  /\ LifeSpanParsed
  /\ config.parts = <<ToDigits(TimedeltaMaxDays), <<"2", "4">>, <<>>, <<>>>>
  /\ config.result.raised = "OverflowError"

-----------------------------------------------------------------------------
(* C26 *)

\* a flow file has been parsed
FlowParsed == config.field = "flow" /\ config.state = "parsed"

\* C26: a flow whose jobs, volumes or images map has a key that is empty or not
\* an identifier is rejected with a schema error.
C26_OnlyIdentifierKeys ==
  FlowParsed =>
    ((\E key \in config.jobs \cup config.volumes \cup config.images :
        ~IsIdentifier(key))
      => config.result.raised = "DataError")

\* a flow with an empty key is rejected
EmptyKeyRejected ==
  (FlowParsed /\ <<>> \in config.jobs \cup config.volumes \cup config.images)
    => config.result.raised = "DataError"

\* a job whose key is "my-job" is accepted
DashedJobKeyAccepted ==
  /\ FlowParsed
  /\ config.jobs = {<<"m", "y", "-", "j", "o", "b">>}
  /\ config.result.raised = "none"
  /\ config.result.jobs = config.jobs

-----------------------------------------------------------------------------
(* C27 *)

\* C27: whenever kill has sent a kill request it answers True and reports
\* 'Killed job', also when a status poll after the request signals not-found.
C27_KillSentMeansTrue ==
  (pc = "done" /\ op.name = "kill" /\ Count("kill") = 1) =>
    /\ outcome = "True"
    /\ printed = <<Line(0, <<"Killed job", op.job_id>>)>>

\* a kill request was sent, a later poll signalled not-found: the answer is False
\* and the job is reported as not running
KilledThenNotFound ==
  /\ pc = "done" /\ op.name = "kill" /\ Count("kill") = 1
  /\ tasks[1].last = "not_found"
  /\ outcome = "False"
  /\ printed = <<Line(0, <<"is not running", op.job_id>>)>>

\* with a kill request sent, True is answered exactly when the last poll reported
\* a status of the TERMINATED set
KillSentTrueIffTerminated ==
  (pc = "done" /\ op.name = "kill" /\ Count("kill") = 1) =>
    (outcome = "True" <=> tasks[1].last \in TerminatedJobStatuses)

-----------------------------------------------------------------------------
(* C28, C29 *)

\* ids of the instances of a job that discovery without suffix can list
Discoverable(rem, job_id) ==
  {i \in 1..Len(rem) : MetaTags(job_id) \subseteq InstTags(rem[i])
                       /\ rem[i].status \in LiveStatuses \cup EndedStatuses}

\* discovery order: the live listing before the terminated listing, each newest first
Earlier(rem, i, j) ==
  IF (rem[i].status \in LiveStatuses) = (rem[j].status \in LiveStatuses)
  THEN i > j
  ELSE rem[i].status \in LiveStatuses

\* a status task of ps runs _job_status in this step
StatusTaskRuns(k) ==
  /\ pc = "waiting" /\ op.name = "ps" /\ pc' = "waiting"
  /\ k \in 1..Len(tasks)
  /\ tasks[k].at = "start" /\ tasks'[k].at = "done"

\* C28: the rows _job_status returns for a multi job carry pairwise different
\* suffixes; for every suffix only the first instance in discovery order (live
\* before terminated, newest first) has a row, with the id '<J> <v>'; later
\* instances of a suffix give no row.
C28_OneRowPerSuffix ==
  [][\A k \in 1..Len(JobIds) :
       (StatusTaskRuns(k) /\ IsMulti(tasks[k].job)) =>
         LET rows == tasks'[k].rows
             job  == tasks[k].job
             d    == Discoverable(remote, job)
         IN /\ \A a, b \in 1..Len(rows) : a # b => rows[a].id # rows[b].id
            /\ \A a \in 1..Len(rows) :
                 rows[a].raw_id \in d =>
                   /\ rows[a].id = <<job, remote[rows[a].raw_id].suffix>>
                   /\ \A j \in d :
                        (j # rows[a].raw_id
                           /\ remote[j].suffix = remote[rows[a].raw_id].suffix)
                          => Earlier(remote, rows[a].raw_id, j)
            /\ \A i \in d : \E a \in 1..Len(rows) : rows[a].id = <<job, remote[i].suffix>>
            /\ \A a, b \in 1..Len(rows) :
                 (a < b /\ rows[b].raw_id \in d) =>
                   (rows[a].raw_id \in d /\ Earlier(remote, rows[a].raw_id, rows[b].raw_id))]_vars

\* the status task of the multi job has returned one row although the remote
\* holds two instances of one suffix
C28_Witness ==
  /\ pc = "waiting" /\ op.name = "ps"
  /\ tasks[2].job = "sweep" /\ tasks[2].at = "done"
  /\ Len(tasks[2].rows) = 1
  /\ tasks[2].rows[1].id = <<"sweep", "s1">>
  /\ Len(remote) >= 2
  /\ remote[1].job = "sweep" /\ remote[2].job = "sweep"
  /\ remote[1].suffix = "s1" /\ remote[2].suffix = "s1"
  /\ tasks[2].rows[1].raw_id = 1
  /\ remote[1].status = "RUNNING" /\ remote[2].status = "SUCCEEDED"

\* C29: _job_status returns at least one row for every declared job; when
\* discovery finds no instance it is the single row with status UNKNOWN, no remote
\* id and no timestamp; otherwise every row carries the remote id and the status
\* of a discovered instance, never UNKNOWN.
C29_UnknownIffNothingFound ==
  [][\A k \in 1..Len(JobIds) :
       StatusTaskRuns(k) =>
         LET rows == tasks'[k].rows
             job  == tasks[k].job
             d    == Discoverable(remote, job)
         IN /\ Len(rows) >= 1
            /\ d = {} => rows = <<JobInfo(<<job>>, "UNKNOWN", 0, None)>>
            /\ d # {} =>
                 \A a \in 1..Len(rows) :
                   /\ rows[a].raw_id \in d
                   /\ rows[a].status = remote[rows[a].raw_id].status
                   /\ rows[a].status # "UNKNOWN"
                   /\ rows[a].when = When(rows[a].status)]_vars

\* one status task has answered UNKNOWN for a job without instance, the other a
\* row for the instance of its job
C29_Witness ==
  /\ pc = "waiting" /\ op.name = "ps"
  /\ Len(remote) = 1 /\ remote[1].job = "train" /\ remote[1].status = "PENDING"
  /\ tasks[1].at = "done" /\ tasks[2].at = "done"
  /\ tasks[1].rows = <<JobInfo(<<"train">>, "PENDING", 1, "created_at")>>
  /\ tasks[2].rows = <<JobInfo(<<"sweep">>, "UNKNOWN", 0, None)>>

-----------------------------------------------------------------------------
(* C30 *)

\* C30: in _try_attach_to_running the error 'Found multiple running jobs' is never
\* raised and len(jobs) is 1 whenever the assertion is evaluated: the discovery of
\* run yields exactly one instance or raises not-found.
C30_OneJobOrNotFound ==
  (pc = "done" /\ op.name = "run") =>
    /\ outcome # "multiple"
    /\ Count("list") > 0 =>
         IF op.not_found THEN Count("yield") = 0 ELSE Count("yield") = 1

\* run attached to the one instance discovery yielded although two instances of
\* the job, a live and a terminated one, were on the remote
C30_Witness ==
  /\ pc = "done" /\ op.name = "run" /\ outcome = "attached"
  /\ Count("yield") = 1
  /\ Matching(LiveStatuses) # {} /\ Matching(EndedStatuses) # {}

\* run of a multi job with a suffix found nothing and went on to launch
C30_WitnessNotFound ==
  /\ pc = "done" /\ op.name = "run" /\ IsMulti(op.job_id) /\ op.suffix # None
  /\ op.not_found /\ Count("list") = 2 /\ Count("yield") = 0
  /\ Len(Before) > 0

-----------------------------------------------------------------------------
(* The graph core of batch flows: build_graphs, check_no_cycles and           *)
(* check_local_deps.  A scope maps the ids of its nodes to their declared     *)
(* needs and their kind: a remote task, a local action, or the call of an     *)
(* action with a task graph of its own.  A flow is its top scope and the      *)
(* scope of the action its calls invoke.  A path is a tuple of ids.            *)

\* the ids of the top scope
TopIds == {"a", "b", "c"}

\* the ids of the scope of the action
ActionIds == {"x", "y"}

NodeKinds == {"remote", "local", "call"}

Node(kind, needs) == [kind |-> kind, needs |-> needs]

\* the action: two remote tasks in a chain, two remote tasks in a cycle, or two
\* local actions in a chain
ActionScopes ==
  { [id \in ActionIds |-> Node("remote", IF id = "y" THEN {"x"} ELSE {})],
    [id \in ActionIds |-> Node("remote", ActionIds \ {id})],
    [id \in ActionIds |-> Node("local", IF id = "y" THEN {"x"} ELSE {})] }

\* the flows given to the graph core
Flows ==
  { [top |-> [id \in TopIds |-> Node(kinds[id], needs[id])], action |-> action] :
      kinds \in [TopIds -> NodeKinds], needs \in [TopIds -> SUBSET TopIds],
      action \in ActionScopes }

\* the ids of the nodes of a scope that call the action
Calls(scope) == {id \in DOMAIN scope : scope[id].kind = "call"}

\* the graph of one scope under a path: node -> predecessors, both as paths
ScopeGraph(path, scope) ==
  [node \in {path \o <<id>> : id \in DOMAIN scope} |->
     {path \o <<need>> : need \in scope[node[Len(node)]].needs}]

\* build_graphs with the task graphs of the actions left out
BuildGraphs_TopOnly(flow) ==
  [path \in {<<>>} |-> ScopeGraph(<<>>, flow.top)]

\* build_graphs: the graph of the flow under (), the task graph of the action
\* under the path of every node that calls it
BuildGraphs(flow) ==
  [path \in {<<>>} \cup {<<id>> : id \in Calls(flow.top)} |->
     IF path = <<>> THEN ScopeGraph(<<>>, flow.top) ELSE ScopeGraph(path, flow.action)]

RECURSIVE Visit(_, _, _)
RECURSIVE VisitAll(_, _, _)
\* the colored depth-first search from one node: GRAY on the first visit, BLACK on
\* completion, a GRAY node met again is a cycle
Visit(graph, node, search) ==
  IF search.cycle THEN search
  ELSE IF search.color[node] = "GRAY" THEN [search EXCEPT !.cycle = TRUE]
  ELSE IF search.color[node] = "BLACK" THEN search
  ELSE LET entered == [search EXCEPT !.color[node] = "GRAY"]
           below   == VisitAll(graph, graph[node], entered)
       IN IF below.cycle THEN below ELSE [below EXCEPT !.color[node] = "BLACK"]

\* the search from every node of a set, one after the other
VisitAll(graph, nodes, search) ==
  IF nodes = {} THEN search
  ELSE LET node == CHOOSE n \in nodes : TRUE
       IN VisitAll(graph, nodes \ {node}, Visit(graph, node, search))

\* the colored search over one graph finds a cycle
Cyclic(graph) ==
  VisitAll(graph, DOMAIN graph,
           [color |-> [n \in DOMAIN graph |-> "WHITE"], cycle |-> FALSE]).cycle

\* check_no_cycles looking at the graph of the flow only
CheckNoCycles_TopOnly(flow) ==
  IF Cyclic(ScopeGraph(<<>>, flow.top)) THEN "CycleError" ELSE "ok"

\* check_no_cycles: the search over the graph of every scope
CheckNoCycles(flow) ==
  IF \E path \in DOMAIN BuildGraphs(flow) : Cyclic(BuildGraphs(flow)[path])
  THEN "CycleError" ELSE "ok"

RECURSIVE Needed(_, _, _)
\* the ids a set of ids depends on within a scope, directly or through other ids
Needed(scope, ids, n) ==
  IF n = 0 THEN ids
  ELSE Needed(scope, ids \cup UNION {scope[id].needs : id \in ids}, n - 1)

\* the direct needs of a node only
Dependencies_Direct(scope, id) == scope[id].needs

\* the dependencies of a node of a scope
Dependencies(scope, id) == Needed(scope, scope[id].needs, Cardinality(DOMAIN scope))

RECURSIVE Dotted(_)
\* ".".join(path)
Dotted(path) ==
  IF Len(path) <= 1 THEN path ELSE <<Head(path), ".">> \o Dotted(Tail(path))

\* the remote tasks that run for a node: the node itself when it is a remote task,
\* the remote tasks of the action when it calls one
RemoteTasks(flow, id) ==
  IF flow.top[id].kind = "remote" THEN {<<id>>}
  ELSE IF flow.top[id].kind = "call"
  THEN {<<id, inner>> : inner \in {i \in DOMAIN flow.action : flow.action[i].kind = "remote"}}
  ELSE {}

\* check_local_deps: the pairs (local action, remote task it depends on) it can
\* raise its error for; none when it succeeds
CheckLocalDeps(flow) ==
  { [local |-> Dotted(<<id>>), remote |-> Dotted(task)] :
      <<id, task>> \in
        { pair \in TopIds \X ({<<i>> : i \in TopIds} \cup (TopIds \X ActionIds)) :
            /\ flow.top[pair[1]].kind = "local"
            /\ \E dep \in Dependencies(flow.top, pair[1]) :
                 pair[2] \in RemoteTasks(flow, dep) } }

BatchGiven(flow) == [state |-> "given", flow |-> flow]

BatchChecked(flow, check, result) ==
  [state |-> "checked", flow |-> flow, check |-> check, result |-> result]

RunBuildGraphs ==
  /\ batch.state = "given"
  /\ batch' = BatchChecked(batch.flow, "build_graphs", BuildGraphs(batch.flow))
  /\ UNCHANGED <<remote, dry_run, project_role, role_created, pc, op, log, outcome,
                 loader, name, tasks, finished, printed, config>>

RunCheckNoCycles ==
  /\ batch.state = "given"
  /\ batch' = BatchChecked(batch.flow, "check_no_cycles", CheckNoCycles(batch.flow))
  /\ UNCHANGED <<remote, dry_run, project_role, role_created, pc, op, log, outcome,
                 loader, name, tasks, finished, printed, config>>

\* check_local_deps succeeds, or raises its error for one of the pairs
RunCheckLocalDeps ==
  /\ batch.state = "given"
  /\ LET errors == CheckLocalDeps(batch.flow)
     IN \E result \in (IF errors = {} THEN {[local |-> <<>>, remote |-> <<>>]}
                       ELSE errors) :
          batch' = BatchChecked(batch.flow, "check_local_deps", result)
  /\ UNCHANGED <<remote, dry_run, project_role, role_created, pc, op, log, outcome,
                 loader, name, tasks, finished, printed, config>>

\* the graph core on its own: every flow, then one of its checks
InitBatch ==
  /\ remote = <<>>
  /\ dry_run = FALSE
  /\ project_role = None
  /\ role_created = FALSE
  /\ pc = "idle"
  /\ op = NoOp
  /\ log = <<>>
  /\ outcome = "none"
  /\ loader = "open"
  /\ name = NoName
  /\ tasks = <<>>
  /\ finished = <<>>
  /\ printed = <<>>
  /\ config = NoConfig
  /\ batch \in {BatchGiven(flow) : flow \in Flows}

NextBatch ==
  \/ RunBuildGraphs
  \/ RunCheckNoCycles
  \/ RunCheckLocalDeps

SpecBatch == InitBatch /\ [][NextBatch]_vars

\* one of the checks has run on the flow
Checked(check) == batch.state = "checked" /\ batch.check = check

\* the scopes of a flow: its own, and that of the action when a node calls it
Scopes(flow) == {flow.top} \cup (IF Calls(flow.top) = {} THEN {} ELSE {flow.action})

\* the chains of at most four ids
Chains == UNION {[1..k -> TopIds] : k \in 2..4}

\* every id of a chain but the first is a need of the id before it
Chained(scope, chain) ==
  \A i \in 1..(Len(chain) - 1) : chain[i + 1] \in scope[chain[i]].needs

-----------------------------------------------------------------------------
(* C23 *)

\* C23: check_no_cycles raises CycleError exactly when the needs of some scope,
\* the flow itself or an action it calls, form a directed cycle.
C23_CycleErrorIffCycle ==
  Checked("check_no_cycles") =>
    (batch.result = "CycleError"
      <=> \E scope \in Scopes(batch.flow) :
            \E id \in DOMAIN scope : id \in Needed(scope, scope[id].needs, 3))

\* a needs b and b needs a: CycleError
C23_Witness ==
  /\ Checked("check_no_cycles")
  /\ batch.flow.top["a"].needs = {"b"} /\ batch.flow.top["b"].needs = {"a"}
  /\ batch.flow.top["c"].needs = {}
  /\ batch.result = "CycleError"

\* the flow itself has no cycle, the action it calls has one: CycleError
C23_WitnessNested ==
  /\ Checked("check_no_cycles")
  /\ \A id \in TopIds : batch.flow.top[id].needs = {}
  /\ Calls(batch.flow.top) = {"c"}
  /\ batch.flow.action["x"].needs = {"y"} /\ batch.flow.action["y"].needs = {"x"}
  /\ batch.result = "CycleError"

\* a chain c -> b -> a with a call of the chained action: the check succeeds
C23_WitnessAcyclic ==
  /\ Checked("check_no_cycles")
  /\ batch.flow.top["c"].needs = {"a", "b"} /\ batch.flow.top["b"].needs = {"a"}
  /\ batch.flow.top["a"].needs = {}
  /\ Calls(batch.flow.top) = {"b"} /\ batch.flow.action["x"].needs = {}
  /\ batch.result = "ok"

-----------------------------------------------------------------------------
(* C24 *)

-----------------------------------------------------------------------------
(* C25 *)

\* the remote tasks a local action of the flow depends on, along a chain of needs
RemoteDependencies(flow, id) ==
  UNION {RemoteTasks(flow, chain[Len(chain)]) :
           chain \in {ch \in Chains : ch[1] = id /\ Chained(flow.top, ch)}}

\* C25: check_local_deps fails exactly when a local action depends on a remote
\* task, directly, through other nodes, or on one inside an action it depends on;
\* its error names such a local action and such a remote task, the task by its
\* dotted path when it is inside an action.
C25_LocalDependsOnRemote ==
  Checked("check_local_deps") =>
    /\ batch.result.local = <<>>
         <=> \A id \in TopIds :
               batch.flow.top[id].kind = "local" => RemoteDependencies(batch.flow, id) = {}
    /\ batch.result.local # <<>> =>
         \E id \in TopIds :
           /\ batch.flow.top[id].kind = "local"
           /\ batch.result.local = <<id>>
           /\ \E task \in RemoteDependencies(batch.flow, id) :
                batch.result.remote = (IF Len(task) = 1 THEN task
                                       ELSE <<task[1], ".", task[2]>>)

\* the local action a needs the remote task b: the error names a and b
C25_Witness ==
  /\ Checked("check_local_deps")
  /\ batch.flow.top["a"].kind = "local" /\ batch.flow.top["a"].needs = {"b"}
  /\ batch.flow.top["b"].kind = "remote" /\ batch.flow.top["b"].needs = {}
  /\ batch.flow.top["c"].kind = "remote"
  /\ batch.result = [local |-> <<"a">>, remote |-> <<"b">>]

\* the local action a needs the call c of an action with remote tasks: the error
\* names the remote task by its path through c
C25_WitnessThroughAction ==
  /\ Checked("check_local_deps")
  /\ batch.flow.top["a"].kind = "local" /\ batch.flow.top["a"].needs = {"c"}
  /\ batch.flow.top["c"].kind = "call" /\ batch.flow.top["c"].needs = {}
  /\ batch.flow.top["b"].kind = "call"
  /\ batch.result = [local |-> <<"a">>, remote |-> <<"c", ".", "x">>]

\* the local action a needs the call b of an action without remote tasks, and b
\* needs the remote task c: the error names a and c
C25_WitnessTransitive ==
  /\ Checked("check_local_deps")
  /\ batch.flow.top["a"].kind = "local" /\ batch.flow.top["a"].needs = {"b"}
  /\ batch.flow.top["b"].kind = "call" /\ batch.flow.top["b"].needs = {"c"}
  /\ batch.flow.action["x"].kind = "local"
  /\ batch.flow.top["c"].kind = "remote" /\ batch.flow.top["c"].needs = {}
  /\ batch.result = [local |-> <<"a">>, remote |-> <<"c">>]

\* no local action depends on a remote task: the check succeeds
C25_WitnessSucceeds ==
  /\ Checked("check_local_deps")
  /\ batch.flow.top["a"].kind = "local" /\ batch.flow.top["a"].needs = {}
  /\ batch.flow.top["b"].kind = "remote" /\ batch.flow.top["b"].needs = {"a"}
  /\ batch.flow.top["c"].kind = "call" /\ batch.flow.top["c"].needs = {"a", "b"}
  /\ batch.result.local = <<>>

-----------------------------------------------------------------------------
(* C31 *)

\* a run in dry-run mode has ended
DryRunDone == pc = "done" /\ op.name = "run" /\ dry_run

\* C31: in dry-run mode run makes no call at all: no listing, no attach or browse,
\* no add-role, no storage write, no CLI execution; the remote is left as it was,
\* and unless the usage is refused the command line is printed.
C31_DryRunCallsNothing ==
  DryRunDone =>
    /\ log = <<>>
    /\ Len(remote) = op.seen
    /\ outcome \notin UsageErrors \cup {"unknown_job"} => outcome = "printed"

\* without a project role a dry run calls nothing and prints the command line
DryRunWithoutRoleCallsNothing ==
  (DryRunDone /\ project_role = None) =>
    /\ log = <<>>
    /\ Len(remote) = op.seen
    /\ outcome \notin UsageErrors \cup {"unknown_job"} => outcome = "printed"

\* a dry run never lists, attaches, browses, writes to the storage or runs the CLI
DryRunOnlyAddsRole ==
  DryRunDone =>
    /\ \A i \in 1..Len(log) : log[i].call = "add_role"
    /\ Len(log) <= 1
    /\ Len(remote) = op.seen

\* a dry run of a flow with a project role has called add-role before printing
DryRunAddedRole ==
  /\ DryRunDone /\ project_role # None
  /\ log = <<Ev("add_role", 0, {}, {}, <<>>)>>
  /\ role_created
  /\ outcome = "printed"

\* a dry run whose add-role call raised has printed nothing
DryRunRoleRaised ==
  /\ DryRunDone
  /\ log = <<Ev("add_role", 0, {}, {}, <<>>)>>
  /\ outcome = "role_error"

-----------------------------------------------------------------------------
(* kill and kill_all under the scheduling of the event loop.  A coroutine that  *)
(* awaits asyncio.sleep(0.2) or a call of the client is resumed by the loop,   *)
(* and a status poll of an instance whose status is in the TERMINATED set is   *)
(* answered with that status; nothing is assumed about the remote ever         *)
(* changing a status, nor about it answering not-found.                        *)

\* the instance a task polls has a status of the TERMINATED set on the remote
Terminated(k) ==
  /\ k \in 1..Len(tasks)
  /\ remote[tasks[k].id].status \in TerminatedJobStatuses

\* kill_job polls and is answered with a TERMINATED status
KillPollEnds ==
  /\ pc = "waiting" /\ op.name = "kill"
  /\ Terminated(1)
  /\ KillPoll
  /\ tasks'[1].last \in TerminatedJobStatuses

\* the k-th kill task of kill_all sends its kill request
KillTaskStarts(k) ==
  /\ pc = "waiting" /\ op.name = "kill_all"
  /\ k \in 1..Len(tasks)
  /\ tasks[k].at = "kill"
  /\ KillTaskKill
  /\ tasks'[k].at = "poll"

\* the k-th kill task of kill_all polls and is answered with a TERMINATED status
KillTaskEnds(k) ==
  /\ pc = "waiting" /\ op.name = "kill_all"
  /\ Terminated(k)
  /\ tasks[k].at = "poll"
  /\ KillTaskPoll
  /\ tasks'[k].last \in TerminatedJobStatuses

NextKillFair ==
  \/ Kill
  \/ KillPoll
  \/ KillAll
  \/ KillTaskKill
  \/ KillTaskPoll
  \/ KillAllJoin
  \/ Return
  \/ RemoteSubmit
  \/ RemoteAdvance

SpecKillFair ==
  /\ InitPlain
  /\ [][NextKillFair]_vars
  /\ WF_vars(KillPollEnds)
  /\ \A k \in 1..MaxJobs : WF_vars(KillTaskStarts(k)) /\ WF_vars(KillTaskEnds(k))

-----------------------------------------------------------------------------
(* C32 *)

\* kill_job is polling
KillJobPolling == pc = "waiting" /\ op.name = "kill"

\* the k-th kill task of kill_all has not finished
KillTaskPending(k) ==
  /\ pc = "waiting" /\ op.name = "kill_all"
  /\ k \in 1..Len(tasks)
  /\ tasks[k].at # "done"

\* the k-th kill task of kill_all has finished
KillTaskDone(k) ==
  /\ op.name = "kill_all"
  /\ k \in 1..Len(tasks)
  /\ tasks[k].at = "done"

\* a poll loop is left in this step
PollingLeft(k) ==
  /\ pc = "waiting" /\ op.name \in {"kill", "kill_all"}
  /\ k \in 1..Len(tasks)
  /\ tasks[k].at = "poll"
  /\ tasks'[k].at = "done"

\* C32: once the remote reports a TERMINATED status for the instance it polls,
\* kill_job finishes, and so does every kill task of kill_all; a poll loop is left
\* only on an answer that is a TERMINATED status or not-found, at no other time.
C32_KillTerminates ==
  /\ (KillJobPolling /\ Terminated(1)) ~> (pc = "done" /\ op.name = "kill")
  /\ \A k \in 1..MaxJobs : (KillTaskPending(k) /\ Terminated(k)) ~> KillTaskDone(k)
  /\ [][\A k \in 1..MaxJobs :
          PollingLeft(k) => tasks'[k].last \in TerminatedJobStatuses \cup {"not_found"}]_vars

\* the first kill task of kill_all has finished on CANCELLED while the second is
\* still polling an instance that is SUSPENDED
C32_Witness ==
  /\ pc = "waiting" /\ op.name = "kill_all"
  /\ Len(tasks) = 2
  /\ tasks[1].at = "done" /\ tasks[1].last = "CANCELLED"
  /\ tasks[2].at = "poll" /\ remote[tasks[2].id].status = "SUSPENDED"

\* kill_job has finished after a poll that was answered FAILED
C32_WitnessKillJob ==
  /\ pc = "done" /\ op.name = "kill" /\ outcome = "True"
  /\ tasks[1].last = "FAILED"

\* without the remote reporting a TERMINATED status kill_job need not finish
KillJobAlwaysFinishes == KillJobPolling ~> (pc = "done" /\ op.name = "kill")

\* nor does a kill task of kill_all
KillTaskAlwaysFinishes == KillTaskPending(1) ~> KillTaskDone(1)

====
